---- MODULE Spec2Model ----
(***************************************************************************)
(* Derivation-and-consistency engine of dnd_db: the content-addressed raw  *)
(* store (db/upsert.py) and the derivation passes layered on it            *)
(* (ingest/load_choices.py, load_prereqs.py, load_grants.py,               *)
(* load_relationships.py).                                                 *)
(*                                                                         *)
(* Text is modelled as a sequence of atoms (words and separator            *)
(* characters); an optional value is the empty sequence (None) or a        *)
(* one-element sequence.                                                   *)
(***************************************************************************)
EXTENDS Integers, Sequences, FiniteSets, TLC

VARIABLES raw_entities, entities, choice_groups, choice_options,
          prerequisites, grants, links, import_runs, import_snapshots,
          characters, http, now, last

vars == <<raw_entities, entities, choice_groups, choice_options,
          prerequisites, grants, links, import_runs, import_snapshots,
          characters, http, now, last>>

\* ------------------------------------------------------------------ bounds
MaxTime == 2
MaxRuns == 2

\* ------------------------------------------------------------ basic values
None == <<>>

Some(v) == <<v>>

SeqToSet(s) == {s[i] : i \in 1..Len(s)}

\* --------------------------------------------------------------- text model
NonAlnum == {" ", "-", "_", "/"}

LowerMap ==
    [w \in {"Archery", "Defense", "Dueling", "Fighter", "Fighting", "Style",
            "Expertise", "Invocations", "Eldritch", "Spell", "Choice",
            "Magic", "Missile", "Second", "Wind", "Light", "Armor", "Skill",
            "Rogue", "Pick"} |->
        CASE w = "Archery" -> "archery"
          [] w = "Defense" -> "defense"
          [] w = "Dueling" -> "dueling"
          [] w = "Fighter" -> "fighter"
          [] w = "Fighting" -> "fighting"
          [] w = "Style" -> "style"
          [] w = "Expertise" -> "expertise"
          [] w = "Invocations" -> "invocations"
          [] w = "Eldritch" -> "eldritch"
          [] w = "Spell" -> "spell"
          [] w = "Choice" -> "choice"
          [] w = "Magic" -> "magic"
          [] w = "Missile" -> "missile"
          [] w = "Second" -> "second"
          [] w = "Wind" -> "wind"
          [] w = "Light" -> "light"
          [] w = "Armor" -> "armor"
          [] w = "Skill" -> "skill"
          [] w = "Rogue" -> "rogue"
          [] OTHER -> "pick"]

\* str.lower() on one atom
LowerAtom(a) == IF a \in DOMAIN LowerMap THEN LowerMap[a] ELSE a

\* str.lower()
Lower(s) == [i \in 1..Len(s) |-> LowerAtom(s[i])]

\* words that contain a shorter keyword as a substring
SubWords ==
    {<<"invocations", "invocation">>, <<"spells", "spell">>,
     <<"cantrips", "cantrip">>, <<"spellcasting", "spell">>,
     <<"fighting_style", "fighting">>, <<"fighting_style", "style">>}

\* `kw in text` for a one-word keyword
HasWord(s, kw) ==
    \E i \in 1..Len(s) : s[i] = kw \/ <<s[i], kw>> \in SubWords

\* `"a b" in text` for a keyword of several atoms
HasPhrase(s, p) ==
    \E i \in 0..(Len(s) - Len(p)) : \A j \in 1..Len(p) : s[i + j] = p[j]

\* " ".join(token for token in parts if token)
RECURSIVE JoinSpace(_)
JoinSpace(parts) ==
    IF parts = <<>> THEN <<>>
    ELSE LET rest == JoinSpace(Tail(parts))
         IN  IF Head(parts) = <<>> THEN rest
             ELSE IF rest = <<>> THEN Head(parts)
             ELSE Head(parts) \o <<" ">> \o rest

\* str.strip(): leading and trailing whitespace
RECURSIVE StripLeft(_, _)
StripLeft(s, chars) ==
    IF s # <<>> /\ Head(s) \in chars THEN StripLeft(Tail(s), chars) ELSE s

RECURSIVE StripRight(_, _)
StripRight(s, chars) ==
    IF s # <<>> /\ s[Len(s)] \in chars
    THEN StripRight(SubSeq(s, 1, Len(s) - 1), chars) ELSE s

Strip(s, chars) == StripRight(StripLeft(s, chars), chars)

\* re.sub(r"[^a-zA-Z0-9]+", "-", s): every run of non-alphanumerics -> "-"
RECURSIVE SubNonAlnum(_)
SubNonAlnum(s) ==
    IF s = <<>> THEN <<>>
    ELSE IF Head(s) \in NonAlnum
         THEN <<"-">> \o SubNonAlnum(StripLeft(Tail(s), NonAlnum))
         ELSE <<Head(s)>> \o SubNonAlnum(Tail(s))

_slugify(value) ==
    LET stripped == Lower(Strip(value, {" "}))
        slug == Strip(SubNonAlnum(stripped), {"-"})
    IN  IF slug # <<>> THEN slug ELSE stripped

\* ------------------------------------------------------------ raw payloads
\* A choice option of a raw document: a bare string (kind "str", text) or
\* an object with optional name / index / option_type / url and a nested
\* item object.
NoItem == [present |-> FALSE, name |-> None, index |-> None,
           type |-> "", spell_url |-> FALSE]

StrOption(text) ==
    [kind |-> "str", text |-> text, name |-> None, index |-> None,
     option_type |-> "", spell_url |-> FALSE, item |-> NoItem]

DictOption(name, index, option_type) ==
    [kind |-> "dict", text |-> None, name |-> name, index |-> index,
     option_type |-> option_type, spell_url |-> FALSE, item |-> NoItem]

\* A JSON value naming another entity: absent, a bare string, or an object
\* with optional "index" and "name".
NoRef == [kind |-> "absent", text |-> None, index |-> None, name |-> None]

DictRef(index, name) == [NoRef EXCEPT !.kind = "dict", !.index = index, !.name = name]

\* A prerequisite entry object ("" is an absent type or operator).
NoEntry == [type |-> "", operator |-> "", name |-> None,
            level |-> None, minimum_level |-> None,
            class |-> NoRef, subclass |-> NoRef,
            ability_score |-> NoRef, minimum_score |-> None,
            feature |-> NoRef]

\* An object node of the document tree that may be choice-like.  from_kind
\* tells the shape of its "from" value: "absent", "list" (the list itself),
\* "options" (an object with an "options" list) or "from" (an object with
\* a "from" list).
NoNode == [type |-> None, name |-> None, label |-> None, desc |-> None,
           extra_keys |-> None,
           choose |-> None, choose_n |-> None, count |-> None,
           level |-> None,
           from_kind |-> "absent", from_list |-> <<>>,
           options |-> None, option_set |-> None,
           prerequisites |-> <<>>, children |-> <<>>]

\* A raw JSON document.  order is the insertion order of its top-level keys.
NoPayload == [order |-> <<"index", "name">>, index |-> None, name |-> None,
              level |-> None, nodes |-> <<>>, prerequisites |-> <<>>,
              proficiencies |-> <<>>, spells |-> <<>>,
              spellcasting_spells |-> <<>>, features |-> <<>>,
              classes |-> None, class |-> None, subclass |-> None]

\* every top-level key, in the order json.dumps(sort_keys=True) emits them
SortedKeys == <<"choices", "class", "classes", "features", "index", "level",
                "name", "prerequisites", "spellcasting", "spells",
                "starting_proficiencies", "subclass">>

\* json.dumps(payload, sort_keys=True, separators=(",", ":"))
CanonicalJson(payload) ==
    [payload EXCEPT
        !.order = SelectSeq(SortedKeys, LAMBDA k : k \in SeqToSet(payload.order))]

\* sha256 of the canonical serialization; the digest is modelled as an
\* injective tag of the serialized text.
canonical_json_hash(payload) == [sha256 |-> CanonicalJson(payload)]

\* Python dict equality: same keys and values, whatever the insertion order
DictEq(p, q) ==
    /\ SeqToSet(p.order) = SeqToSet(q.order)
    /\ [p EXCEPT !.order = <<>>] = [q EXCEPT !.order = <<>>]

\* A count-like JSON value: an integer, a digit string, or a value int()
\* rejects (a word, a list).
IntVal(n) == Some([kind |-> "int", n |-> n])

\* -------------------------------------------------- load_choices helpers
_coerce_int(value) ==
    IF value = None THEN None
    ELSE IF value[1].kind = "bad" THEN None
    ELSE Some(value[1].n)

\* Python `a or b` on optional integers: None and 0 are falsy
OrElse(a, b) == IF a = None \/ a = Some(0) THEN b ELSE a

_is_choice_like(node) ==
    LET choose_key == node.choose # None \/ node.choose_n # None \/ node.count # None
        has_options == \/ node.from_kind # "absent"
                       \/ node.options # None
                       \/ node.option_set # None
    IN  choose_key /\ has_options

\* Pre-order walk of the object nodes of a document (visit()).
RECURSIVE _collect_choice_nodes(_)
_collect_choice_nodes(nodes) ==
    IF nodes = <<>> THEN <<>>
    ELSE LET node == Head(nodes)
         IN  (IF _is_choice_like(node) THEN <<node>> ELSE <<>>)
             \o _collect_choice_nodes(node.children)
             \o _collect_choice_nodes(Tail(nodes))

_extract_options(node) ==
    LET v0 == node.options
        v1 == IF node.from_kind \in {"options", "from"} THEN Some(node.from_list)
              ELSE IF node.from_kind = "list" /\ v0 = None THEN Some(node.from_list)
              ELSE v0
        v2 == IF node.option_set # None THEN node.option_set ELSE v1
    IN  IF v2 # None THEN v2[1] ELSE <<>>

_normalize_option_type(value) ==
    IF value = "" THEN "string"
    ELSE LET candidate == LowerAtom(value)
         IN  IF candidate \in {"feature", "class_feature", "subclass_feature"}
             THEN "feature"
             ELSE IF candidate \in {"spell", "spells"} THEN "spell"
             ELSE "string"

_extract_label(option) ==
    IF option.name # None THEN option.name
    ELSE IF option.item.present /\ option.item.name # None THEN option.item.name
    ELSE None

_extract_source_key(option) ==
    IF option.index # None THEN option.index
    ELSE IF option.item.present /\ option.item.index # None THEN option.item.index
    ELSE None

_extract_reference_type(option) ==
    IF option.item.present /\ option.item.type # "" THEN option.item.type
    ELSE IF option.item.present /\ option.item.spell_url THEN "spell"
    ELSE IF option.spell_url THEN "spell"
    ELSE ""

\* the four fallbacks of _parse_option over the pair <<label, source_key>>
\* `if not label and source_key: label = source_key`
LabelFromKey(p) == IF p[1] = None /\ p[2] # None THEN <<p[2], p[2]>> ELSE p

\* `if not source_key and label: source_key = _slugify(label)`
KeyFromLabel(p) == IF p[2] = None /\ p[1] # None THEN <<p[1], _slugify(p[1])>> ELSE p

\* `if not label: label = source_key or "unknown"`
LabelOrUnknown(p) ==
    IF p[1] = None THEN <<IF p[2] # None THEN p[2] ELSE <<"unknown">>, p[2]>> ELSE p

\* `if not source_key: source_key = _slugify(label)`
KeyOrSlug(p) == IF p[2] = None THEN <<p[1], _slugify(p[1])>> ELSE p

\* returns <<option_type, source_key, label>>
_parse_option(option, default_type) ==
    IF option.kind = "str"
    THEN <<default_type, _slugify(option.text), option.text>>
    ELSE
      LET t0 == IF option.option_type # "" THEN option.option_type ELSE default_type
          ref_type == _extract_reference_type(option)
          option_type == IF t0 = "reference"
                         THEN (IF ref_type # "" THEN ref_type ELSE default_type)
                         ELSE t0
          p == KeyOrSlug(LabelOrUnknown(KeyFromLabel(LabelFromKey(
                   <<_extract_label(option), _extract_source_key(option)>>))))
      IN  <<option_type, p[2], p[1]>>

_choice_notes(choice_node) ==
    IF choice_node.name # None THEN choice_node.name
    ELSE IF choice_node.desc # None THEN choice_node.desc
    ELSE None

_choice_label(choice_node) ==
    IF choice_node.name # None THEN choice_node.name
    ELSE IF choice_node.label # None THEN choice_node.label
    ELSE None

_owner_text(owner_name, owner_key) == Lower(JoinSpace(<<owner_name, owner_key>>))

IsFightingStyleText(text) ==
    \/ HasPhrase(text, <<"fighting", " ", "style">>)
    \/ HasPhrase(text, <<"fighting", "-", "style">>)

_infer_fighting_style(choice_node, options, owner_name, owner_key) ==
    LET type_value == Lower(choice_node.type)
        name_value == Lower(choice_node.name)
        option_text(option) ==
            IF option.kind = "dict"
            THEN Lower(JoinSpace(<<_extract_label(option), _extract_source_key(option)>>))
            ELSE Lower(option.text)
    IN  \/ HasWord(type_value, "fighting") /\ HasWord(type_value, "style")
        \/ HasWord(name_value, "fighting") /\ HasWord(name_value, "style")
        \/ IsFightingStyleText(_owner_text(owner_name, owner_key))
        \/ \E i \in 1..Len(options) : IsFightingStyleText(option_text(options[i]))

_choice_text(choice_node) ==
    Lower(JoinSpace(<<choice_node.type, choice_node.name, choice_node.label,
                      choice_node.desc>>))

\* the node's own key names; only the keys outside the fixed vocabulary
\* (extra_keys) can carry a spell token
_choice_keys_text(choice_node) == Lower(choice_node.extra_keys)

_options_have_spell_reference(options) ==
    \E i \in 1..Len(options) :
        LET option == options[i]
        IN  IF option.kind = "dict"
            THEN \/ HasWord(<<LowerAtom(option.option_type)>>, "spell")
                 \/ LowerAtom(_extract_reference_type(option)) = "spell"
                 \/ option.item.present /\ option.item.spell_url
            ELSE HasWord(Lower(option.text), "spell")

_infer_choice_type(choice_node, options, owner_name, owner_key) ==
    LET choice_text == _choice_text(choice_node)
        key_text == _choice_keys_text(choice_node)
        owner_text == _owner_text(owner_name, owner_key)
    IN  IF _infer_fighting_style(choice_node, options, owner_name, owner_key)
        THEN "fighting_style"
        ELSE IF HasWord(choice_text, "invocation") \/ HasWord(owner_text, "invocation")
        THEN "invocation"
        ELSE IF HasWord(choice_text, "expertise") \/ HasWord(owner_text, "expertise")
        THEN "expertise"
        ELSE IF \/ HasWord(choice_text, "spell") \/ HasWord(choice_text, "cantrip")
                \/ HasWord(key_text, "spell") \/ HasWord(key_text, "cantrip")
                \/ HasWord(owner_text, "spell") \/ HasWord(owner_text, "cantrip")
                \/ _options_have_spell_reference(options)
        THEN "spell"
        ELSE "generic"

\* f"{owner_type}:{owner_key}:{choice_type}:{level_token}:{label_token}",
\* kept as the tuple of its five components
_build_choice_source_key(owner_type, owner_key, choice_type, level, label) ==
    LET level_token == IF level # None THEN <<"str", level[1]>> ELSE <<"na", 0>>
        label_token == IF label # None THEN _slugify(label) ELSE <<"choice">>
    IN  <<owner_type, owner_key, choice_type, level_token, label_token>>

\* the label defaults load_choices and load_prereqs apply per choice type
DefaultLabel(choice_type, label) ==
    IF label # None THEN label
    ELSE IF choice_type = "fighting_style" THEN <<"Fighting", " ", "Style">>
    ELSE IF choice_type = "expertise" THEN <<"Expertise">>
    ELSE IF choice_type = "invocation" THEN <<"Invocations">>
    ELSE IF choice_type = "spell" THEN <<"Spell", " ", "Choice">>
    ELSE None

\* ------------------------------------------------------------------ tables
Sources == {1}

SetMax(S) == CHOOSE m \in S : \A n \in S : m >= n

\* the next autoincrement primary key of a table
NextId(rows) == IF rows = {} THEN 1 ELSE SetMax({r.id : r \in rows}) + 1

\* rows of a select without ORDER BY, in primary-key order
RECURSIVE ById(_)
ById(rows) ==
    IF rows = {} THEN <<>>
    ELSE LET r == CHOOSE x \in rows : \A y \in rows : x.id <= y.id
         IN  <<r>> \o ById(rows \ {r})

\* {entry.source_key: entry for entry in select(table).where(source_id == ..)}
ByKey(etype, source_id, source_key) ==
    {e \in entities : /\ e.etype = etype
                      /\ e.source_id = source_id
                      /\ e.source_key = source_key}

RawOf(source_id, types) ==
    ById({r \in raw_entities : r.source_id = source_id /\ r.entity_type \in types})

TableCounts ==
    [choice_groups |-> Cardinality(choice_groups),
     choice_options |-> Cardinality(choice_options),
     prerequisites |-> Cardinality(prerequisites),
     grants |-> Cardinality(grants),
     links |-> Cardinality(links)]

NoCreated == [groups |-> 0, options |-> 0, prereqs |-> 0,
              proficiencies |-> 0, spells |-> 0, features |-> 0,
              class_features |-> 0, subclass_features |-> 0,
              spell_classes |-> 0]

\* the arguments of a call of the character helpers
NoArgs == [character_id |-> 0, class_id |-> 0, subclass_id |-> None, level |-> 0,
           choices |-> <<>>, ability_scores |-> None, prereqs |-> <<>>]

\* what the most recent operation was called with and what it returned
NoLast == [op |-> "init", source_id |-> 0, ok |-> TRUE, created |-> NoCreated,
           missing |-> 0, before |-> [choice_groups |-> 0, choice_options |-> 0,
                                      prerequisites |-> 0, grants |-> 0,
                                      links |-> 0],
           prev |-> <<"init", 0, TRUE>>,
           key |-> <<>>, payload |-> NoPayload, old_payload |-> NoPayload,
           outcome |-> <<FALSE, FALSE>>,
           added |-> 0, spells_before |-> {}, report |-> [errors |-> {}, warnings |-> {}],
           args |-> NoArgs, result |-> [error |-> "", at |-> 0],
           truncate |-> FALSE]

Returned(op, source_id, ok, created, missing) ==
    [NoLast EXCEPT !.op = op, !.source_id = source_id, !.ok = ok,
                   !.created = created, !.missing = missing,
                   !.before = TableCounts,
                   !.prev = <<last.op, last.source_id, last.ok>>]

\* ------------------------------------------------------ upsert_raw_entity
RawKey(r) == <<r.source_id, r.entity_type, r.source_key>>

RawRows(key) == {r \in raw_entities : RawKey(r) = key}

\* the "updated" branch forgetting to store the new hash
UpdatedRowStaleHash(existing, payload, raw_hash, name, srd, url) ==
    [existing EXCEPT !.raw_json = payload, !.name = name,
                     !.srd = srd, !.url = url,
                     !.retrieved_at = now, !.updated_at = now]

\* the "updated" branch forgetting to store the new payload
UpdatedRowStalePayload(existing, payload, raw_hash, name, srd, url) ==
    [existing EXCEPT !.raw_hash = raw_hash, !.name = name,
                     !.srd = srd, !.url = url,
                     !.retrieved_at = now, !.updated_at = now]

\* the row written by the "updated" branch
UpdatedRow(existing, payload, raw_hash, name, srd, url) ==
    [existing EXCEPT !.raw_json = payload, !.raw_hash = raw_hash,
                     !.name = name, !.srd = srd, !.url = url,
                     !.retrieved_at = now, !.updated_at = now]

\* the row written by the "unchanged" branch: the branch assigns
\* retrieved_at, and the UPDATE it flushes leaves updated_at out of its SET
\* clause, so the column's onupdate default (models/raw_entity.py line 50)
\* stamps it with the clock as well
TouchedRow(existing) ==
    [existing EXCEPT !.retrieved_at = now, !.updated_at = now]

upsert_raw_entity(source_id, entity_type, source_key, payload, name, srd, url) ==
    LET raw_hash == canonical_json_hash(payload)
        key == <<source_id, entity_type, source_key>>
        found == RawRows(key)
        ret(outcome) == [Returned("upsert_raw_entity", source_id, TRUE, NoCreated, 0)
                            EXCEPT !.key = key, !.payload = payload,
                                   !.old_payload =
                                       IF found = {} THEN NoPayload
                                       ELSE (CHOOSE r \in found : TRUE).raw_json,
                                   !.outcome = outcome]
    IN  /\ now < MaxTime
        /\ now' = now + 1
        /\ IF found = {}
           THEN /\ raw_entities' = raw_entities \cup
                     {[id |-> NextId(raw_entities), source_id |-> source_id,
                       entity_type |-> entity_type, source_key |-> source_key,
                       name |-> name, srd |-> srd, url |-> url,
                       raw_json |-> payload, raw_hash |-> raw_hash,
                       retrieved_at |-> now, created_at |-> now,
                       updated_at |-> now]}
                /\ last' = ret(<<TRUE, FALSE>>)
           ELSE LET existing == CHOOSE r \in found : TRUE
                IN  IF existing.raw_hash = raw_hash
                    THEN /\ raw_entities' = (raw_entities \ {existing}) \cup
                              {TouchedRow(existing)}
                         /\ last' = ret(<<FALSE, FALSE>>)
                    ELSE /\ raw_entities' = (raw_entities \ {existing}) \cup
                              {UpdatedRow(existing, payload, raw_hash, name, srd, url)}
                         /\ last' = ret(<<FALSE, TRUE>>)
        /\ UNCHANGED <<entities, choice_groups, choice_options, prerequisites,
                       grants, links, import_runs, import_snapshots,
                   characters, http>>

\* ------------------------------------------------------------ load_choices
\* the lookup keyed by the notes column instead of the stable key
GroupKeyByNotes(g) ==
    <<g.source_id, g.owner_type, g.owner_id, g.choice_type, g.level, g.notes>>

GroupKey(g) ==
    <<g.source_id, g.owner_type, g.owner_id, g.choice_type, g.level, g.source_key>>

OptionKey(o) ==
    <<o.choice_group_id, o.option_type, o.option_source_key, o.label>>

\* group_lookup.get(group_key): the dict keeps the last group stored per key
GroupLookup(lookup, group_key) ==
    LET ids == {e.id : e \in {x \in lookup : x.key = group_key}}
    IN  IF ids = {} THEN None ELSE Some(SetMax(ids))

\* a pass that starts without the keys of the options already stored
ChoicesStartNoOptionKeys(groups, options, source_id) ==
    [groups |-> groups, options |-> options,
     group_lookup |-> {[key |-> GroupKey(g), id |-> g.id] :
                          g \in {x \in groups : x.source_id = source_id}},
     option_keys |-> {},
     group_created |-> 0, option_created |-> 0, missing |-> 0]

\* the session state of a pass before its loop: the rows of the store, the
\* lookups built from them, and zeroed counters
ChoicesStart(groups, options, source_id) ==
    LET existing_groups == {g \in groups : g.source_id = source_id}
        existing_options ==
            {o \in options :
                \E g \in existing_groups : g.id = o.choice_group_id}
    IN  [groups |-> groups, options |-> options,
         group_lookup |-> {[key |-> GroupKey(g), id |-> g.id] : g \in existing_groups},
         option_keys |-> {OptionKey(o) : o \in existing_options},
         group_created |-> 0, option_created |-> 0, missing |-> 0]

DefaultOptionType(choice_type) ==
    IF choice_type \in {"fighting_style", "invocation"} THEN "feature"
    ELSE IF choice_type = "spell" THEN "spell"
    ELSE "string"

\* a lookup that returns a feature of the source whatever its key
ResolveFeatureAnyKey(option_type, source_id, option_source_key) ==
    LET feature == {e \in entities : e.etype = "feature" /\ e.source_id = source_id}
    IN  IF option_type = "feature" /\ feature # {}
        THEN Some((CHOOSE f \in feature : TRUE).id) ELSE None

\* lines 475-479: features_by_key.get(option_source_key) for a feature
\* option; None when the option is of another type or no feature matches
ResolveFeature(option_type, source_id, option_source_key) ==
    LET feature == ByKey("feature", source_id, option_source_key)
    IN  IF option_type = "feature" /\ feature # {}
        THEN Some((CHOOSE f \in feature : TRUE).id) ELSE None

\* lines 463-492: one parsed option <<type, source_key, label>> against
\* option_keys
ParsedChoiceOption(acc, source_id, group_id, parsed) ==
    LET option_type == _normalize_option_type(parsed[1])
        option_key == <<group_id, option_type, parsed[2], parsed[3]>>
        feature_id == ResolveFeature(option_type, source_id, parsed[2])
    IN  IF option_key \in acc.option_keys THEN acc
        ELSE [acc EXCEPT
                !.options = @ \cup
                    {[id |-> NextId(acc.options), choice_group_id |-> group_id,
                      option_type |-> option_type,
                      option_source_key |-> parsed[2], label |-> parsed[3],
                      feature_id |-> feature_id]},
                !.option_keys = @ \cup {option_key},
                !.option_created = @ + 1,
                !.missing = IF option_type = "feature" /\ feature_id = None
                            THEN @ + 1 ELSE @]

\* the body of `for option in options`
RECURSIVE ChoiceOptionsLoop(_, _, _, _, _)
ChoiceOptionsLoop(acc, source_id, group_id, choice_type, options) ==
    IF options = <<>> THEN acc
    ELSE ChoiceOptionsLoop(
             ParsedChoiceOption(acc, source_id, group_id,
                 _parse_option(Head(options), DefaultOptionType(choice_type))),
             source_id, group_id, choice_type, Tail(options))

\* the level of a choice node: its own, the document's, or the owner's
ChoiceLevel(choice, payload, owner) ==
    LET level == OrElse(_coerce_int(choice.level), _coerce_int(payload.level))
    IN  IF level = None /\ owner.level # None THEN owner.level ELSE level

\* lines 404-492: the group of a typed choice node, looked up or created,
\* and its options
ChoiceGroupStep(acc, owner_type, owner, payload, choice, options, choice_type, choose_n) ==
    LET level == ChoiceLevel(choice, payload, owner)
        label == DefaultLabel(choice_type, _choice_label(choice))
        source_key == _build_choice_source_key(owner_type, owner.source_key,
                                               choice_type, level, label)
        group_key == <<owner.source_id, owner_type, owner.id, choice_type,
                       level, source_key>>
        found == GroupLookup(acc.group_lookup, group_key)
        new_id == NextId(acc.groups)
    IN  IF found # None
        THEN ChoiceOptionsLoop(acc, owner.source_id, found[1], choice_type, options)
        ELSE ChoiceOptionsLoop(
                 [acc EXCEPT
                    !.groups = @ \cup
                        {[id |-> new_id, source_id |-> owner.source_id,
                          owner_type |-> owner_type, owner_id |-> owner.id,
                          choice_type |-> choice_type, choose_n |-> choose_n[1],
                          level |-> level, label |-> label,
                          notes |-> _choice_notes(choice),
                          source_key |-> source_key]},
                    !.group_lookup = @ \cup {[key |-> group_key, id |-> new_id]},
                    !.group_created = @ + 1],
                 owner.source_id, new_id, choice_type, options)

\* lines 397-413: a node without a choose count is skipped; the others are
\* typed
ChoiceStep(acc, owner_type, owner, payload, choice, options) ==
    LET choose_n == OrElse(_coerce_int(choice.choose),
                           OrElse(_coerce_int(choice.choose_n),
                                  _coerce_int(choice.count)))
    IN  IF choose_n = None THEN acc
        ELSE ChoiceGroupStep(acc, owner_type, owner, payload, choice, options,
                 _infer_choice_type(choice, options, owner.name, owner.source_key),
                 choose_n)

\* the body of `for choice in choices`
RECURSIVE ChoicesLoop(_, _, _, _, _)
ChoicesLoop(acc, owner_type, owner, payload, choices) ==
    IF choices = <<>> THEN acc
    ELSE ChoicesLoop(ChoiceStep(acc, owner_type, owner, payload, Head(choices),
                                _extract_options(Head(choices))),
                     owner_type, owner, payload, Tail(choices))

\* the body of `for raw_entity in raw_entities`
RECURSIVE ChoicesRawLoop(_, _)
ChoicesRawLoop(acc, raws) ==
    IF raws = <<>> THEN acc
    ELSE
      LET raw_entity == Head(raws)
          owners == ByKey(raw_entity.entity_type, raw_entity.source_id,
                          raw_entity.source_key)
      IN  ChoicesRawLoop(
              IF owners = {} THEN acc
              ELSE ChoicesLoop(acc, raw_entity.entity_type,
                               CHOOSE o \in owners : TRUE, raw_entity.raw_json,
                               _collect_choice_nodes(raw_entity.raw_json.nodes)),
              Tail(raws))

\* a rollback that keeps the rows added since the last commit
RollbackKeepsPending(committed, pending) == pending

\* session.rollback(): the rows added since the last commit are discarded
Rollback(committed, pending) == committed

\* the ImportRun row a pass adds and commits before its try block; statuses
\* lists the values the committed status column has held
StartedRun(phase, source_id) ==
    [id |-> Len(import_runs) + 1, phase |-> phase, source_id |-> source_id,
     status |-> "started", created_rows |-> 0, error |-> None,
     statuses |-> <<"started">>]

\* the assignments to import_run at the end of the try block or in the
\* except block, committed once
FinishedRun(run, status, created_rows, error) ==
    [run EXCEPT !.status = status, !.created_rows = created_rows,
                !.error = error, !.statuses = Append(@, status)]

\* a pass that leaves its ImportRun row as it created it
ImportRunRowLeftStarted(phase, source_id, status, created_rows, error) ==
    StartedRun(phase, source_id)

\* the ImportRun row a pass leaves behind
ImportRunRow(phase, source_id, status, created_rows, error) ==
    FinishedRun(StartedRun(phase, source_id), status, created_rows, error)

\* lines 494-518: commit and summary, or rollback and the failed run
ChoicesFinish(source_id, failed, acc) ==
    LET created == [NoCreated EXCEPT !.groups = acc.group_created,
                                     !.options = acc.option_created]
    IN  IF failed
        THEN /\ choice_groups' = Rollback(choice_groups, acc.groups)
             /\ choice_options' = Rollback(choice_options, acc.options)
             /\ import_runs' = Append(import_runs,
                    ImportRunRow("choices", source_id, "failed", 0,
                                 Some("exception")))
             /\ last' = Returned("load_choices", source_id, FALSE, created,
                                 acc.missing)
        ELSE /\ choice_groups' = acc.groups
             /\ choice_options' = acc.options
             /\ import_runs' = Append(import_runs,
                    ImportRunRow("choices", source_id, "success",
                                 acc.group_created + acc.option_created, None))
             /\ last' = Returned("load_choices", source_id, TRUE, created,
                                 acc.missing)

\* the raw entities a pass gets through before it ends
Processed(raws, fail_after) ==
    IF fail_after >= 0 THEN SubSeq(raws, 1, fail_after) ELSE raws

\* fail_after = -1: the pass completes; fail_after = k: an unexpected
\* exception is raised once k raw entities have been processed
load_choices(source_id, fail_after) ==
    /\ Len(import_runs) < MaxRuns
    /\ fail_after <= Len(RawOf(source_id, {"class", "feature"}))
    /\ ChoicesFinish(source_id, fail_after >= 0,
           ChoicesRawLoop(ChoicesStart(choice_groups, choice_options, source_id),
                          Processed(RawOf(source_id, {"class", "feature"}),
                                    fail_after)))
    /\ UNCHANGED <<raw_entities, entities, prerequisites, grants, links, now,
                   import_snapshots, characters, http>>

\* ------------------------------------------------------------ load_prereqs
_extract_key(value) ==
    IF value.kind = "dict" /\ value.index # None THEN value.index
    ELSE IF value.kind = "dict" /\ value.name # None THEN _slugify(value.name)
    ELSE IF value.kind = "str" THEN _slugify(value.text)
    ELSE None

_entry_notes(entry) == entry.name

\* a class row for every entry that names a class
ClassRowAlways(entry_type, has_class, has_level) == TRUE

\* lines 97-99: an entry naming a class yields a class row when it is typed
\* "class", or is not typed "level" and gives no level
EmitsClassRow(entry_type, has_class, has_level) ==
    entry_type = "class" \/ (has_class /\ ~has_level /\ entry_type # "level")

\* lines 83-124: the tuples appended for the values extracted from an entry
PrereqTuples(entry, level_value, class_key, subclass_key, ability_key, min_score, feature_key) ==
    LET entry_type == LowerAtom(entry.type)
        notes == _entry_notes(entry)
        op(default) == IF entry.operator # "" THEN entry.operator ELSE default
    IN  (IF level_value # None
         THEN <<<<"level", IF class_key # None THEN class_key ELSE <<"any">>,
                  op(">="), ToString(level_value[1]), notes>>>>
         ELSE <<>>)
        \o (IF /\ class_key # None
               /\ EmitsClassRow(entry_type, entry.class.kind # "absent",
                                level_value # None)
            THEN <<<<"class", class_key, op("=="), "true", notes>>>>
            ELSE <<>>)
        \o (IF subclass_key # None
            THEN <<<<"subclass", subclass_key, op("=="), "true", notes>>>>
            ELSE <<>>)
        \o (IF ability_key # None /\ min_score # None
            THEN <<<<"ability", ability_key, op(">="), ToString(min_score[1]), notes>>>>
            ELSE <<>>)
        \o (IF feature_key # None
            THEN <<<<"feature", feature_key, op("=="), "true", notes>>>>
            ELSE <<>>)

\* the <<prereq_type, key, operator, value, notes>> tuples of one entry
_parse_prereq_entry(entry) ==
    PrereqTuples(entry,
                 IF _coerce_int(entry.level) = None
                 THEN _coerce_int(entry.minimum_level) ELSE _coerce_int(entry.level),
                 _extract_key(entry.class), _extract_key(entry.subclass),
                 _extract_key(entry.ability_score), _coerce_int(entry.minimum_score),
                 _extract_key(entry.feature))

RECURSIVE _iter_prereqs(_)
_iter_prereqs(nodes) ==
    IF nodes = <<>> THEN <<>>
    ELSE _parse_prereq_entry(Head(nodes)) \o _iter_prereqs(Tail(nodes))

\* the entries under the "prerequisites" key of a document or choice node
_extract_prereq_nodes(node) == node.prerequisites

\* the dedup key taken over the notes column instead of the value
PrereqKeyByNotes(p) ==
    <<p.applies_to_type, p.applies_to_id, p.prereq_type, p.key, p.operator, p.notes>>

PrereqKey(p) ==
    <<p.applies_to_type, p.applies_to_id, p.prereq_type, p.key, p.operator, p.value>>

PrereqsStart(rows) ==
    [rows |-> rows,
     prereq_keys |-> {PrereqKey(p) : p \in rows},
     created |-> 0, missing |-> 0]

\* `for prereq_type, key, operator, value, notes in prereqs`
RECURSIVE PrereqRowsLoop(_, _, _, _)
PrereqRowsLoop(acc, applies_to_type, applies_to_id, prereqs) ==
    IF prereqs = <<>> THEN acc
    ELSE
      LET t == Head(prereqs)
          prereq_key == <<applies_to_type, applies_to_id, t[1], t[2], t[3], t[4]>>
      IN  PrereqRowsLoop(
              IF prereq_key \in acc.prereq_keys THEN acc
              ELSE [acc EXCEPT
                      !.rows = @ \cup
                          {[id |-> NextId(acc.rows),
                            applies_to_type |-> applies_to_type,
                            applies_to_id |-> applies_to_id, prereq_type |-> t[1],
                            key |-> t[2], operator |-> t[3], value |-> t[4],
                            notes |-> t[5]]},
                      !.prereq_keys = @ \cup {prereq_key},
                      !.created = @ + 1],
              applies_to_type, applies_to_id, Tail(prereqs))

\* a lookup that returns a group of the source whatever its key
GroupOfSource(source_id, choice_source_key) ==
    LET ids == {g.id : g \in {x \in choice_groups : x.source_id = source_id}}
    IN  IF ids = {} THEN None ELSE Some(SetMax(ids))

\* choice_groups_by_source_key.get(choice_source_key)
GroupBySourceKey(source_id, choice_source_key) ==
    LET ids == {g.id : g \in {x \in choice_groups :
                                 /\ x.source_id = source_id
                                 /\ x.source_key = choice_source_key}}
    IN  IF ids = {} THEN None ELSE Some(SetMax(ids))

\* lines 239-294: the group a typed choice node belongs to, found by the
\* stable key rebuilt from the node, or a missing reference
PrereqChoiceGroup(acc, owner_type, owner, payload, choice, choice_type) ==
    LET choice_group ==
            GroupBySourceKey(owner.source_id,
                _build_choice_source_key(owner_type, owner.source_key, choice_type,
                    ChoiceLevel(choice, payload, owner),
                    DefaultLabel(choice_type, _choice_label(choice))))
    IN  IF choice_group = None THEN [acc EXCEPT !.missing = @ + 1]
        ELSE PrereqRowsLoop(acc, "choice_group", choice_group[1],
                            _iter_prereqs(_extract_prereq_nodes(choice)))

\* lines 235-249: a node without prerequisites is skipped; the others are
\* typed
PrereqChoiceStep(acc, owner_type, owner, payload, choice) ==
    IF _extract_prereq_nodes(choice) = <<>> THEN acc
    ELSE PrereqChoiceGroup(acc, owner_type, owner, payload, choice,
             _infer_choice_type(choice, _extract_options(choice), owner.name,
                                owner.source_key))

\* `for choice in choice_nodes` of load_prereqs
RECURSIVE PrereqChoicesLoop(_, _, _, _, _)
PrereqChoicesLoop(acc, owner_type, owner, payload, choice_nodes) ==
    IF choice_nodes = <<>> THEN acc
    ELSE PrereqChoicesLoop(
             PrereqChoiceStep(acc, owner_type, owner, payload, Head(choice_nodes)),
             owner_type, owner, payload, Tail(choice_nodes))

\* `for raw_entity in raw_entities` of load_prereqs
RECURSIVE PrereqsRawLoop(_, _)
PrereqsRawLoop(acc, raws) ==
    IF raws = <<>> THEN acc
    ELSE
      LET raw_entity == Head(raws)
          owner_type == raw_entity.entity_type
          owners == ByKey(owner_type, raw_entity.source_id, raw_entity.source_key)
          owner == CHOOSE o \in owners : TRUE
          prereq_nodes == _extract_prereq_nodes(raw_entity.raw_json)
      IN  PrereqsRawLoop(
              IF owners = {} THEN acc
              ELSE PrereqChoicesLoop(
                       IF prereq_nodes # <<>> /\ owner_type = "feature"
                       THEN PrereqRowsLoop(acc, "feature", owner.id,
                                           _iter_prereqs(prereq_nodes))
                       ELSE acc,
                       owner_type, owner, raw_entity.raw_json,
                       _collect_choice_nodes(raw_entity.raw_json.nodes)),
              Tail(raws))

\* lines 296-312: commit and summary, or rollback and the failed run
PrereqsFinish(source_id, failed, acc) ==
    LET created == [NoCreated EXCEPT !.prereqs = acc.created]
    IN  IF failed
        THEN /\ prerequisites' = Rollback(prerequisites, acc.rows)
             /\ import_runs' = Append(import_runs,
                    ImportRunRow("prereqs", source_id, "failed", 0,
                                 Some("exception")))
             /\ last' = Returned("load_prereqs", source_id, FALSE, created,
                                 acc.missing)
        ELSE /\ prerequisites' = acc.rows
             /\ import_runs' = Append(import_runs,
                    ImportRunRow("prereqs", source_id, "success", acc.created, None))
             /\ last' = Returned("load_prereqs", source_id, TRUE, created,
                                 acc.missing)

load_prereqs(source_id, fail_after) ==
    /\ Len(import_runs) < MaxRuns
    /\ fail_after <= Len(RawOf(source_id, {"class", "feature"}))
    /\ PrereqsFinish(source_id, fail_after >= 0,
           PrereqsRawLoop(PrereqsStart(prerequisites),
                          Processed(RawOf(source_id, {"class", "feature"}),
                                    fail_after)))
    /\ UNCHANGED <<raw_entities, entities, choice_groups, choice_options,
                   grants, links, now, import_snapshots, characters, http>>

\* ------------------------------------------------------------- load_grants
\* returns <<key, label>>; an object with neither name nor key falls through
\* to str(item)
_extract_ref(item) ==
    IF item.kind = "dict" /\ item.name # None /\ item.index # None
    THEN <<item.index, item.name>>
    ELSE IF item.kind = "dict" /\ item.name # None
    THEN <<_slugify(item.name), item.name>>
    ELSE IF item.kind = "dict" /\ item.index # None
    THEN <<item.index, item.index>>
    ELSE IF item.kind = "str"
    THEN <<_slugify(item.text), item.text>>
    ELSE <<<<"repr">>, <<"repr">>>>

\* <<proficiency_type, key, label>> for every item of every proficiency list
RECURSIVE _collect_proficiency_grants(_)
_collect_proficiency_grants(lists) ==
    IF lists = <<>> THEN <<>>
    ELSE LET l == Head(lists)
         IN  [i \in 1..Len(l.items) |->
                 <<l.key, _extract_ref(l.items[i])[1], _extract_ref(l.items[i])[2]>>]
             \o _collect_proficiency_grants(Tail(lists))

_collect_spell_grants(payload) ==
    LET all == payload.spells \o payload.spellcasting_spells
    IN  [i \in 1..Len(all) |-> <<"", _extract_ref(all[i])[1], _extract_ref(all[i])[2]>>]

_collect_feature_grants(payload) ==
    [i \in 1..Len(payload.features) |->
        <<"", _extract_ref(payload.features[i])[1], _extract_ref(payload.features[i])[2]>>]

GrantKey(g) == <<g.table, g.source_id, g.owner_type, g.owner_id, g.gtype, g.key, g.label>>

GrantsStart(rows, source_id) ==
    [rows |-> rows,
     keys |-> {GrantKey(g) : g \in {x \in rows : x.source_id = source_id}},
     created |-> [proficiency |-> 0, spell |-> 0, feature |-> 0],
     missing |-> 0]

\* one of the three `for ... in _collect_*_grants(payload)` loops; a spell
\* or feature grant resolves its key against the table of that name
RECURSIVE GrantRowsLoop(_, _, _, _, _)
GrantRowsLoop(acc, table, owner_type, owner, found) ==
    IF found = <<>> THEN acc
    ELSE
      LET t == Head(found)
          key_tuple == <<table, owner.source_id, owner_type, owner.id, t[1], t[2], t[3]>>
          target == ByKey(table, owner.source_id, t[2])
          resolves == table # "proficiency"
      IN  GrantRowsLoop(
              IF key_tuple \in acc.keys THEN acc
              ELSE [acc EXCEPT
                      !.rows = @ \cup
                          {[table |-> table,
                            id |-> NextId({g \in acc.rows : g.table = table}),
                            source_id |-> owner.source_id,
                            owner_type |-> owner_type, owner_id |-> owner.id,
                            gtype |-> t[1], key |-> t[2], label |-> t[3],
                            ref_id |-> IF resolves /\ target # {}
                                       THEN Some((CHOOSE e \in target : TRUE).id)
                                       ELSE None]},
                      !.keys = @ \cup {key_tuple},
                      !.created[table] = @ + 1,
                      !.missing = IF resolves /\ target = {} THEN @ + 1 ELSE @],
              table, owner_type, owner, Tail(found))

\* `for raw_entity in raw_entities` of load_grants: the proficiency, spell
\* and feature loops of each raw entity whose owner exists
RECURSIVE GrantsRawLoop(_, _)
GrantsRawLoop(acc, raws) ==
    IF raws = <<>> THEN acc
    ELSE
      LET raw_entity == Head(raws)
          payload == raw_entity.raw_json
          owner_type == raw_entity.entity_type
          owners == ByKey(owner_type, raw_entity.source_id, raw_entity.source_key)
          owner == CHOOSE o \in owners : TRUE
      IN  GrantsRawLoop(
              IF owners = {} THEN acc
              ELSE GrantRowsLoop(
                       GrantRowsLoop(
                           GrantRowsLoop(acc, "proficiency", owner_type, owner,
                               _collect_proficiency_grants(payload.proficiencies)),
                           "spell", owner_type, owner, _collect_spell_grants(payload)),
                       "feature", owner_type, owner, _collect_feature_grants(payload)),
              Tail(raws))

\* lines 300-326: commit and summary, or rollback and the failed run
GrantsFinish(source_id, failed, acc) ==
    LET created == [NoCreated EXCEPT !.proficiencies = acc.created.proficiency,
                                     !.spells = acc.created.spell,
                                     !.features = acc.created.feature]
    IN  IF failed
        THEN /\ grants' = Rollback(grants, acc.rows)
             /\ import_runs' = Append(import_runs,
                    ImportRunRow("grants", source_id, "failed", 0,
                                 Some("exception")))
             /\ last' = Returned("load_grants", source_id, FALSE, created,
                                 acc.missing)
        ELSE /\ grants' = acc.rows
             /\ import_runs' = Append(import_runs,
                    ImportRunRow("grants", source_id, "success",
                                 acc.created.proficiency + acc.created.spell
                                   + acc.created.feature, None))
             /\ last' = Returned("load_grants", source_id, TRUE, created,
                                 acc.missing)

load_grants(source_id, fail_after) ==
    /\ Len(import_runs) < MaxRuns
    /\ fail_after <= Len(RawOf(source_id, {"class", "feature", "subclass"}))
    /\ GrantsFinish(source_id, fail_after >= 0,
           GrantsRawLoop(GrantsStart(grants, source_id),
                         Processed(RawOf(source_id, {"class", "feature", "subclass"}),
                                   fail_after)))
    /\ UNCHANGED <<raw_entities, entities, choice_groups, choice_options,
                   prerequisites, links, now, import_snapshots,
                   characters, http>>

\* ------------------------------------------------------ load_relationships
\* the class indexes a spell document names
_extract_class_indices(payload) ==
    IF payload.classes # None THEN payload.classes[1]
    ELSE IF payload.class # None THEN <<payload.class[1]>>
    ELSE <<>>

\* <<class_index, subclass_index, level>>
_extract_feature_refs(payload) ==
    <<payload.class, payload.subclass, _coerce_int(payload.level)>>

_level_key(level) == IF level # None THEN level[1] ELSE -1

LinkKey(l) == <<l.table, l.source_id, l.a_id, l.b_id, _level_key(l.level)>>

LinksStart(rows, source_id) ==
    [rows |-> rows,
     keys |-> {LinkKey(l) : l \in {x \in rows : x.source_id = source_id}},
     created |-> [class_feature |-> 0, subclass_feature |-> 0, spell_class |-> 0],
     missing |-> 0]

\* existing_*_keys.add(key); new_*.append(link)
AddLink(acc, table, source_id, a_id, b_id, level) ==
    LET row == [table |-> table,
                id |-> NextId({l \in acc.rows : l.table = table}),
                source_id |-> source_id, a_id |-> a_id, b_id |-> b_id,
                level |-> level]
    IN  IF LinkKey(row) \in acc.keys THEN acc
        ELSE [acc EXCEPT !.rows = @ \cup {row},
                         !.keys = @ \cup {LinkKey(row)},
                         !.created[table] = @ + 1]

\* `for class_index in _extract_class_indices(payload)`
RECURSIVE SpellClassesLoop(_, _, _)
SpellClassesLoop(acc, spell, indices) ==
    IF indices = <<>> THEN acc
    ELSE
      LET dnd_class == ByKey("class", spell.source_id, Head(indices))
      IN  SpellClassesLoop(
              IF dnd_class = {} THEN [acc EXCEPT !.missing = @ + 1]
              ELSE AddLink(acc, "spell_class", spell.source_id, spell.id,
                           (CHOOSE c \in dnd_class : TRUE).id, None),
              spell, Tail(indices))

\* `for raw_entity in spell_entities`
RECURSIVE SpellRawLoop(_, _)
SpellRawLoop(acc, raws) ==
    IF raws = <<>> THEN acc
    ELSE
      LET raw_entity == Head(raws)
          spell == ByKey("spell", raw_entity.source_id, raw_entity.source_key)
      IN  SpellRawLoop(
              IF spell = {} THEN [acc EXCEPT !.missing = @ + 1]
              ELSE SpellClassesLoop(acc, CHOOSE x \in spell : TRUE,
                                    _extract_class_indices(raw_entity.raw_json)),
              Tail(raws))

\* the class or subclass link of one feature document
FeatureLink(acc, table, etype, feature, index, level) ==
    LET target == ByKey(etype, feature.source_id, index[1])
    IN  IF index = None THEN acc
        ELSE IF target = {} THEN [acc EXCEPT !.missing = @ + 1]
        ELSE AddLink(acc, table, feature.source_id,
                     (CHOOSE x \in target : TRUE).id, feature.id, level)

\* `for raw_entity in feature_entities`: the class link, then the subclass
\* link, of each feature
RECURSIVE FeatureRawLoop(_, _)
FeatureRawLoop(acc, raws) ==
    IF raws = <<>> THEN acc
    ELSE
      LET raw_entity == Head(raws)
          feature == ByKey("feature", raw_entity.source_id, raw_entity.source_key)
          f == CHOOSE x \in feature : TRUE
          refs == _extract_feature_refs(raw_entity.raw_json)
      IN  FeatureRawLoop(
              IF feature = {} THEN [acc EXCEPT !.missing = @ + 1]
              ELSE FeatureLink(
                       FeatureLink(acc, "class_feature", "class", f, refs[1], refs[3]),
                       "subclass_feature", "subclass", f, refs[2], refs[3]),
              Tail(raws))

\* lines 244-305: commit, the successful run and the summary; or, the
\* exception having left the loops before any link was added to the
\* session (line 244), the failed run with its counters still 0
LinksFinish(source_id, failed, acc) ==
    IF failed
    THEN /\ links' = links
         /\ import_runs' = Append(import_runs,
                ImportRunRow("relationships", source_id, "failed", 0,
                             Some("exception")))
         /\ last' = Returned("load_relationships", source_id, FALSE, NoCreated,
                             acc.missing)
    ELSE /\ links' = acc.rows
         /\ import_runs' = Append(import_runs,
                ImportRunRow("relationships", source_id, "success",
                             acc.created.class_feature + acc.created.subclass_feature
                               + acc.created.spell_class, None))
         /\ last' = Returned("load_relationships", source_id, TRUE,
                             [NoCreated EXCEPT
                                !.class_features = acc.created.class_feature,
                                !.subclass_features = acc.created.subclass_feature,
                                !.spell_classes = acc.created.spell_class],
                             acc.missing)

\* fail_after as in load_choices, counted over the feature documents
load_relationships(source_id, fail_after) ==
    /\ Len(import_runs) < MaxRuns
    /\ fail_after <= Len(RawOf(source_id, {"feature"}))
    /\ LinksFinish(source_id, fail_after >= 0,
           FeatureRawLoop(
               SpellRawLoop(LinksStart(links, source_id), RawOf(source_id, {"spell"})),
               Processed(RawOf(source_id, {"feature"}), fail_after)))
    /\ UNCHANGED <<raw_entities, entities, choice_groups, choice_options,
                   prerequisites, grants, now, import_snapshots,
                   characters, http>>

\* ---------------------------------------------------- _rebuild_relationships
\* a truncation that deletes the links of every source
TruncatedAll(rows, source_id, truncate) ==
    IF truncate THEN {} ELSE rows

\* the three delete statements of the truncate branch, and their commit
Truncated(rows, source_id, truncate) ==
    IF truncate THEN {l \in rows : l.source_id # source_id} ELSE rows

\* the links load_relationships leaves when it starts from the given rows
LoadedLinks(rows, source_id, fail_after) ==
    FeatureRawLoop(
        SpellRawLoop(LinksStart(rows, source_id), RawOf(source_id, {"spell"})),
        Processed(RawOf(source_id, {"feature"}), fail_after))

\* rebuild-relationships [--truncate]: the truncation is committed before
\* the load starts, so a failed load leaves the links truncated
_rebuild_relationships(source_id, truncate, fail_after) ==
    LET kept == Truncated(links, source_id, truncate)
        acc == LoadedLinks(kept, source_id, fail_after)
        failed == fail_after >= 0
    IN  /\ Len(import_runs) < MaxRuns
        /\ fail_after <= Len(RawOf(source_id, {"feature"}))
        /\ links' = IF failed THEN kept ELSE acc.rows
        /\ import_runs' = Append(import_runs,
               IF failed
               THEN ImportRunRow("relationships", source_id, "failed", 0,
                                 Some("exception"))
               ELSE ImportRunRow("relationships", source_id, "success",
                        acc.created.class_feature + acc.created.subclass_feature
                          + acc.created.spell_class, None))
        /\ last' = [Returned("_rebuild_relationships", source_id, ~failed,
                             IF failed THEN NoCreated
                             ELSE [NoCreated EXCEPT
                                     !.class_features = acc.created.class_feature,
                                     !.subclass_features =
                                         acc.created.subclass_feature,
                                     !.spell_classes = acc.created.spell_class],
                             acc.missing)
                      EXCEPT !.added = last.added, !.truncate = truncate]
        /\ UNCHANGED <<raw_entities, entities, choice_groups, choice_options,
                       prerequisites, grants, now, import_snapshots,
                       characters, http>>

\* ------------------------------------------------------- documents in play
kFighter == <<"fighter">>

kActionSurge == <<"action", "-", "surge">>

kMagicMissile == <<"magic", "-", "missile">>

kArchery == <<"fighting", "-", "style", "-", "archery">>

OptArchery == DictOption(<<"Archery">>, kArchery, "feature")

OptDefense ==
    DictOption(<<"Defense">>, <<"fighting", "-", "style", "-", "defense">>, "feature")

OptDueling ==
    DictOption(<<"Dueling">>, <<"fighting", "-", "style", "-", "dueling">>, "feature")

FightingStyleNode(options) ==
    [NoNode EXCEPT !.type = <<"fighting_style">>, !.choose = IntVal(1),
                   !.from_kind = "list", !.from_list = options]

ClassDoc(nodes) ==
    [NoPayload EXCEPT !.order = <<"index", "name", "choices">>,
                      !.index = kFighter, !.name = <<"Fighter">>,
                      !.nodes = nodes]

DocStyles2 == ClassDoc(<<FightingStyleNode(<<OptArchery, OptDefense>>)>>)

\* DocStyles2 with its keys inserted in another order
DocStyles2Reordered == [DocStyles2 EXCEPT !.order = <<"name", "choices", "index">>]

DocStyles3 == ClassDoc(<<FightingStyleNode(<<OptArchery, OptDefense, OptDueling>>)>>)

\* DocStyles2 whose option list gained an entry equal to one it already had
DocStylesRepeat == ClassDoc(<<FightingStyleNode(<<OptArchery, OptDefense, OptArchery>>)>>)

AbilityEntry ==
    [NoEntry EXCEPT !.type = "ability_score",
                    !.ability_score = DictRef(<<"str">>, None),
                    !.minimum_score = IntVal(13)]

\* a node whose text carries both the expertise and the invocation token,
\* followed by one that carries only the expertise token
NodeBoth ==
    [NoNode EXCEPT !.name = <<"Expertise">>, !.desc = <<"Invocations">>,
                   !.choose = IntVal(2),
                   !.options = Some(<<StrOption(<<"Skill">>)>>),
                   !.prerequisites = <<AbilityEntry>>]

NodeExpertise ==
    [NoNode EXCEPT !.name = <<"Rogue", " ", "Expertise">>, !.choose = IntVal(2),
                   !.from_kind = "options",
                   !.from_list = <<StrOption(<<"Skill">>), StrOption(<<"Pick">>)>>]

DocMixed == ClassDoc(<<NodeBoth, NodeExpertise>>)

\* a choice node with nothing but a count and its options
GenericNode(choose, options) ==
    [NoNode EXCEPT !.choose = choose, !.options = Some(options)]

\* two unlabeled choices of one class, each with its own count and option
DocTwins ==
    ClassDoc(<<GenericNode(IntVal(1), <<StrOption(<<"Skill">>)>>),
               GenericNode(IntVal(2), <<StrOption(<<"Pick">>)>>)>>)

\* a choice whose only count key is "count": 0, and one whose "choose" is
\* a word
DocZeroCount ==
    ClassDoc(<<[GenericNode(None, <<StrOption(<<"Skill">>)>>)
                   EXCEPT !.count = IntVal(0)],
               [GenericNode(Some([kind |-> "bad", n |-> 0]),
                            <<StrOption(<<"Pick">>)>>)
                   EXCEPT !.label = <<"Other">>]>>)

GrantsDoc(spells) ==
    [NoPayload EXCEPT
        !.order = <<"index", "name", "starting_proficiencies", "spellcasting",
                    "features">>,
        !.index = kFighter, !.name = <<"Fighter">>,
        !.proficiencies =
            <<[key |-> "starting_proficiencies",
               items |-> <<DictRef(<<"armor", "-", "light">>, <<"Light", " ", "Armor">>)>>]>>,
        !.spellcasting_spells = spells,
        !.features = <<DictRef(<<"second", "-", "wind">>, <<"Second", " ", "Wind">>)>>]

DocGrants == GrantsDoc(<<DictRef(kMagicMissile, <<"Magic", " ", "Missile">>)>>)

DocGrantsFewer == GrantsDoc(<<>>)

FeatureDoc(prereqs) ==
    [NoPayload EXCEPT
        !.order = <<"index", "name", "level", "class", "prerequisites">>,
        !.index = kActionSurge, !.name = <<"Action", " ", "Surge">>,
        !.level = IntVal(2), !.class = Some(kFighter),
        !.prerequisites = prereqs]

LevelEntry(type) ==
    [NoEntry EXCEPT !.type = type, !.level = IntVal(2),
                    !.class = DictRef(kFighter, None)]

\* the prerequisites of the loader's own test document
DocSurge ==
    FeatureDoc(<<LevelEntry("level"), AbilityEntry,
                 [NoEntry EXCEPT !.type = "feature",
                                 !.feature = DictRef(<<"second", "-", "wind">>, None)]>>)

\* one entry giving a level and a class, with no type
DocSurgeUntyped == FeatureDoc(<<LevelEntry("")>>)

\* one entry giving a level and a class, typed "class"
DocSurgeClass == FeatureDoc(<<LevelEntry("class")>>)

DocMissile ==
    [NoPayload EXCEPT !.order = <<"index", "name", "level", "classes">>,
                      !.index = kMagicMissile, !.name = <<"Magic", " ", "Missile">>,
                      !.level = IntVal(1),
                      !.classes = Some(<<kFighter, <<"wizard">>>>)]

RawDoc(entity_type, source_key, payload) ==
    [entity_type |-> entity_type, source_key |-> source_key,
     payload |-> payload, name |-> payload.name]

ClassEntity ==
    [etype |-> "class", source_key |-> kFighter, name |-> <<"Fighter">>,
     level |-> None]

ArcheryEntity ==
    [etype |-> "feature", source_key |-> kArchery, name |-> <<"Archery">>,
     level |-> Some(1)]

SurgeEntity ==
    [etype |-> "feature", source_key |-> kActionSurge,
     name |-> <<"Action", " ", "Surge">>, level |-> Some(2)]

MissileEntity ==
    [etype |-> "spell", source_key |-> kMagicMissile,
     name |-> <<"Magic", " ", "Missile">>, level |-> Some(1)]

\* The documents, normalized entities and passes exercised together; meta
\* holds the <<srd, url>> arguments the documents are stored with.  The
\* passes write disjoint tables, so each behaviour drives one pass (and the
\* passes it reads from) over the documents that concern it.
ChoiceFamily ==
    [docs |-> {RawDoc("class", kFighter, d) :
                  d \in {DocStyles2, DocStyles2Reordered, DocStyles3,
                         DocStylesRepeat, DocMixed, DocTwins, DocZeroCount}},
     entities |-> {ClassEntity, ArcheryEntity},
     meta |-> {<<None, None>>},
     phases |-> {"choices"}]

PrereqFamily ==
    [docs |-> {RawDoc("class", kFighter, DocMixed)} \cup
              {RawDoc("feature", kActionSurge, d) :
                  d \in {DocSurge, DocSurgeUntyped, DocSurgeClass}},
     entities |-> {ClassEntity, SurgeEntity},
     meta |-> {<<None, None>>},
     phases |-> {"choices", "prereqs"}]

GrantFamily ==
    [docs |-> {RawDoc("class", kFighter, d) : d \in {DocGrants, DocGrantsFewer}},
     entities |-> {ClassEntity, MissileEntity},
     meta |-> {<<None, None>>},
     phases |-> {"grants"}]

LinkFamily ==
    [docs |-> {RawDoc("spell", kMagicMissile, DocMissile),
               RawDoc("feature", kActionSurge, DocSurge)},
     entities |-> {ClassEntity, SurgeEntity, MissileEntity},
     meta |-> {<<None, None>>, <<Some(TRUE), Some("/api")>>},
     phases |-> {"relationships"}]

\* the store holds nothing from outside the family
Scoped(family) ==
    /\ \A r \in raw_entities :
          RawDoc(r.entity_type, r.source_key, r.raw_json) \in family.docs
    /\ \A e \in entities :
          [etype |-> e.etype, source_key |-> e.source_key, name |-> e.name,
           level |-> e.level] \in family.entities
    /\ \A i \in 1..Len(import_runs) : import_runs[i].phase \in family.phases
    /\ last.added = 0
    /\ import_snapshots # <<>> => "snapshot" \in family.phases

\* ------------------------------------------------------------- normalizers
\* an importer inserts the normalized row of an entity (_upsert_class and
\* its siblings, "existing is None" branch)
import_entity(source_id, e) ==
    /\ ByKey(e.etype, source_id, e.source_key) = {}
    /\ entities' = entities \cup
          {[etype |-> e.etype,
            id |-> NextId({x \in entities : x.etype = e.etype}),
            source_id |-> source_id, source_key |-> e.source_key,
            name |-> e.name, level |-> e.level]}
    /\ last' = Returned("import_entity", source_id, TRUE, NoCreated, 0)
    /\ UNCHANGED <<raw_entities, choice_groups, choice_options, prerequisites,
                   grants, links, import_runs, now, import_snapshots,
                   characters, http>>

\* ------------------------------------------------------------ verification
\* the messages of a report are modelled as tuples: the text before the
\* colon, then the values the message is formatted with
Table(etype) == {e \in entities : e.etype = etype}

LinkTable(table) == {l \in links : l.table = table}

GrantTable(table) == {g \in grants : g.table = table}

RawCount(entity_type) ==
    Cardinality({r \in raw_entities : r.entity_type = entity_type})

\* select(cols, count()).group_by(cols).having(count() > 1), over the
\* <<id, cols>> pairs of a table
Duplicated(keyed) ==
    {p[2] : p \in {x \in keyed : \E y \in keyed : y[1] # x[1] /\ y[2] = x[2]}}

EntityKey(e) == <<e.source_id, e.source_key>>

FeatureLinkKey(l) == <<l.source_id, l.a_id, l.b_id, _level_key(l.level)>>

SpellClassKey(l) == <<l.source_id, l.a_id, l.b_id>>

check_counts ==
    LET mismatch(label, entity_type, etype) ==
            IF RawCount(entity_type) # Cardinality(Table(etype))
            THEN {<<label, RawCount(entity_type), Cardinality(Table(etype))>>}
            ELSE {}
    IN  mismatch("Spell count mismatch", "spell", "spell")
        \cup mismatch("Class count mismatch", "class", "class")
        \cup mismatch("Subclass count mismatch", "subclass", "subclass")
        \cup mismatch("Feature count mismatch", "feature", "feature")

check_duplicates ==
    {<<"Duplicate raw entity", k>> :
             k \in Duplicated({<<r.id, RawKey(r)>> : r \in raw_entities})}
    \cup {<<"Duplicate spell", k>> :
             k \in Duplicated({<<r.id, EntityKey(r)>> : r \in Table("spell")})}
    \cup {<<"Duplicate class", k>> :
             k \in Duplicated({<<r.id, EntityKey(r)>> : r \in Table("class")})}
    \cup {<<"Duplicate subclass", k>> :
             k \in Duplicated({<<r.id, EntityKey(r)>> :
                     r \in Table("subclass")})}
    \cup {<<"Duplicate feature", k>> :
             k \in Duplicated({<<r.id, EntityKey(r)>> :
                     r \in Table("feature")})}
    \cup {<<"Duplicate class feature link", k>> :
             k \in Duplicated({<<r.id, FeatureLinkKey(r)>> :
                     r \in LinkTable("class_feature")})}
    \cup {<<"Duplicate subclass feature link", k>> :
             k \in Duplicated({<<r.id, FeatureLinkKey(r)>> :
                     r \in LinkTable("subclass_feature")})}
    \cup {<<"Duplicate spell class link", k>> :
             k \in Duplicated({<<r.id, SpellClassKey(r)>> :
                     r \in LinkTable("spell_class")})}

\* the three raw-link queries of one normalized table
MissingLinksOf(etype) ==
    LET raw_ids == {r.id : r \in raw_entities}
        linked == {e.raw_entity_id[1] :
                      e \in {x \in Table(etype) : x.raw_entity_id # None}}
    IN  {<<"missing raw_entity_id", etype, e.id>> :
            e \in {x \in Table(etype) : x.raw_entity_id = None}}
        \cup {<<"raw_entity_id missing raw entity", etype, e.id>> :
                e \in {x \in Table(etype) :
                          /\ x.raw_entity_id # None
                          /\ x.raw_entity_id[1] \notin raw_ids}}
        \cup {<<"Raw entity missing link", etype, r.id>> :
                r \in {x \in raw_entities :
                          x.entity_type = etype /\ x.id \notin linked}}

check_missing_links ==
    MissingLinksOf("spell") \cup MissingLinksOf("class")
    \cup MissingLinksOf("subclass") \cup MissingLinksOf("feature")

Ids(rows) == {r.id : r \in rows}

\* select(Link).where(~Link.<column>.in_(select(Entity.id)))
MissingReference(label, table, column, etype) ==
    {<<label, l.id>> :
        l \in {x \in LinkTable(table) : x[column] \notin Ids(Table(etype))}}

\* select(Link, A, B).join(A, ..).join(B, ..).where(source_id differs): the
\* joins are inner joins, so a link appears only when both rows it
\* references exist
SourceMismatch(label, table, a_etype, b_etype) ==
    {<<label, l.id>> :
        l \in {x \in LinkTable(table) :
                  \E a \in Table(a_etype), b \in Table(b_etype) :
                      /\ x.a_id = a.id
                      /\ x.b_id = b.id
                      /\ (x.source_id # a.source_id \/ x.source_id # b.source_id)}}

check_relationship_integrity ==
    MissingReference("Class feature link missing class", "class_feature", "a_id", "class")
    \cup MissingReference("Class feature link missing feature", "class_feature", "b_id", "feature")
    \cup MissingReference("Subclass feature link missing subclass",
                          "subclass_feature", "a_id", "subclass")
    \cup MissingReference("Subclass feature link missing feature",
                          "subclass_feature", "b_id", "feature")
    \cup MissingReference("Spell class link missing spell", "spell_class", "a_id", "spell")
    \cup MissingReference("Spell class link missing class", "spell_class", "b_id", "class")
    \cup SourceMismatch("Class feature link source mismatch", "class_feature",
                        "class", "feature")
    \cup SourceMismatch("Subclass feature link source mismatch",
                        "subclass_feature", "subclass", "feature")
    \cup SourceMismatch("Spell class link source mismatch", "spell_class",
                        "spell", "class")

check_relationship_coverage ==
    (IF /\ Table("spell") # {}
        /\ Table("class") # {}
        /\ LinkTable("spell_class") = {}
     THEN {<<"Spell class coverage missing">>} ELSE {})
    \cup
    (IF /\ {f \in Table("feature") : f.class_source_key # None} # {}
        /\ Table("class") # {}
        /\ LinkTable("class_feature") = {}
     THEN {<<"Class feature coverage missing">>} ELSE {})

check_spell_essentials ==
    {<<"Spell missing essentials", e.id>> :
        e \in {x \in Table("spell") :
                  x.name = None \/ x.source_key = None \/ x.level = None}}

\* check_class_essentials, check_subclass_essentials, check_feature_essentials
check_essentials(label, etype) ==
    {<<label, e.id>> :
        e \in {x \in Table(etype) : x.name = None \/ x.source_key = None}}

run_all_checks ==
    LET errors == check_counts
                  \cup check_duplicates
                  \cup check_missing_links
                  \cup check_relationship_integrity
                  \cup check_relationship_coverage
                  \cup check_spell_essentials
                  \cup check_essentials("Class missing essentials", "class")
                  \cup check_essentials("Subclass missing essentials", "subclass")
                  \cup check_essentials("Feature missing essentials", "feature")
    IN  [ok |-> errors = {}, errors |-> errors, warnings |-> check_counts]


\* ---------------------------------------------------------- verify_choices
ChoiceGroupNaturalKey(g) ==
    <<g.source_id, g.owner_type, g.owner_id, g.choice_type, g.level, g.source_key>>

ChoiceOptionNaturalKey(o) ==
    <<o.choice_group_id, o.option_type, o.option_source_key, o.label>>

\* select(ChoiceGroup).where(owner_type == .., ~owner_id.in_(select(id)))
MissingGroupOwner(label, owner_type) ==
    {<<label, g.id>> :
        g \in {x \in choice_groups : /\ x.owner_type = owner_type
                                     /\ x.owner_id \notin Ids(Table(owner_type))}}

\* the groups no option points at
EmptyGroups ==
    {<<"Choice group has no options", g.id>> :
        g \in {x \in choice_groups :
                  x.id \notin {o.choice_group_id : o \in choice_options}}}

verify_choices ==
    [errors |->
        {<<"Duplicate choice group", k>> :
            k \in Duplicated({<<r.id, ChoiceGroupNaturalKey(r)>> :
                    r \in choice_groups})}
        \cup {<<"Duplicate choice option", k>> :
                k \in Duplicated({<<r.id, ChoiceOptionNaturalKey(r)>> :
                        r \in choice_options})}
        \cup {<<"Choice option missing group", o.id>> :
                o \in {x \in choice_options :
                          x.choice_group_id \notin Ids(choice_groups)}}
        \cup MissingGroupOwner("Choice group missing class owner", "class")
        \cup MissingGroupOwner("Choice group missing feature owner", "feature")
        \cup {<<"Choice option missing feature", o.id>> :
                o \in {x \in choice_options :
                          /\ x.feature_id # None
                          /\ x.feature_id[1] \notin Ids(Table("feature"))}},
     warnings |-> EmptyGroups]

\* ---------------------------------------------------------- verify_prereqs
PrereqNaturalKey(p) ==
    <<p.applies_to_type, p.applies_to_id, p.prereq_type, p.key, p.operator, p.value>>

\* the ids a prerequisite of the given kind can apply to
ApplyTargets(applies_to_type) ==
    IF applies_to_type = "feature" THEN Ids(Table("feature"))
    ELSE Ids(choice_groups)

MissingApplyTarget(label, applies_to_type) ==
    {<<label, p.id>> :
        p \in {x \in prerequisites :
                  /\ x.applies_to_type = applies_to_type
                  /\ x.applies_to_id \notin ApplyTargets(applies_to_type)}}

\* select(Prerequisite).join(target, applies_to_id == target.id)
\*     .where(applies_to_type == .., prereq_type == ..,
\*            ~key.in_(select(Entity.source_key)))
MissingPrereqReference(label, applies_to_type, prereq_type) ==
    {<<label, p.id>> :
        p \in {x \in prerequisites :
                  /\ x.applies_to_id \in ApplyTargets(applies_to_type)
                  /\ x.applies_to_type = applies_to_type
                  /\ x.prereq_type = prereq_type
                  /\ x.key \notin {e.source_key : e \in Table(prereq_type)}}}

MissingPrereqReferences(applies_to_type) ==
    MissingPrereqReference("Prerequisite missing class reference",
                           applies_to_type, "class")
    \cup MissingPrereqReference("Prerequisite missing subclass reference",
                                applies_to_type, "subclass")
    \cup MissingPrereqReference("Prerequisite missing feature reference",
                                applies_to_type, "feature")

verify_prereqs ==
    [errors |->
        {<<"Duplicate prerequisite", k>> :
            k \in Duplicated({<<r.id, PrereqNaturalKey(r)>> :
                    r \in prerequisites})}
        \cup MissingApplyTarget("Prerequisite missing feature apply target",
                                "feature")
        \cup MissingApplyTarget("Prerequisite missing choice group apply target",
                                "choice_group")
        \cup MissingPrereqReferences("feature")
        \cup MissingPrereqReferences("choice_group"),
     warnings |-> {}]

\* ----------------------------------------------------------- verify_grants
ProficiencyNaturalKey(g) ==
    <<g.source_id, g.owner_type, g.owner_id, g.gtype, g.key, g.label>>

GrantReferenceKey(g) == <<g.source_id, g.owner_type, g.owner_id, g.key, g.label>>

MissingProficiencyOwner(label, owner_type) ==
    {<<label, g.id>> :
        g \in {x \in GrantTable("proficiency") :
                  /\ x.owner_type = owner_type
                  /\ x.owner_id \notin Ids(Table(owner_type))}}

\* a query for the grants whose reference id is null
MissingGrantReferenceId(label, table) ==
    {<<label, g.id>> : g \in {x \in GrantTable(table) : x.ref_id = None}}

\* select(Grant).outerjoin(Entity, source_key and source_id equal)
\*     .where(Entity.id.is_(None))
MissingGrantReference(label, table) ==
    {<<label, g.id>> :
        g \in {x \in GrantTable(table) : ByKey(table, x.source_id, x.key) = {}}}

verify_grants ==
    [errors |->
        {<<"Duplicate grant proficiency", k>> :
            k \in Duplicated({<<r.id, ProficiencyNaturalKey(r)>> :
                    r \in GrantTable("proficiency")})}
        \cup {<<"Duplicate grant spell", k>> :
                k \in Duplicated({<<r.id, GrantReferenceKey(r)>> :
                        r \in GrantTable("spell")})}
        \cup {<<"Duplicate grant feature", k>> :
                k \in Duplicated({<<r.id, GrantReferenceKey(r)>> :
                        r \in GrantTable("feature")})}
        \cup MissingProficiencyOwner("Grant proficiency missing class owner",
                                     "class")
        \cup MissingProficiencyOwner("Grant proficiency missing feature owner",
                                     "feature")
        \cup MissingProficiencyOwner("Grant proficiency missing subclass owner",
                                     "subclass")
        \cup MissingGrantReference("Grant spell missing spell reference", "spell")
        \cup MissingGrantReference("Grant feature missing feature reference",
                                   "feature"),
     warnings |-> {}]

\* ----------------------------------------------------------- import_spells
kAcidArrow == <<"acid", "-", "arrow">>

\* {"index": "acid-arrow", "name": "Acid Arrow", "level": level}
DocAcidArrow(level) ==
    [NoPayload EXCEPT !.order = <<"index", "name", "level">>,
                      !.index = kAcidArrow, !.name = <<"Acid", " ", "Arrow">>,
                      !.level = IntVal(level)]

AcidArrowEntity(level) ==
    [etype |-> "spell", source_key |-> kAcidArrow,
     name |-> <<"Acid", " ", "Arrow">>, level |-> Some(level)]

kFireball == <<"fireball">>

DocFireball ==
    [NoPayload EXCEPT !.order = <<"index", "name", "level">>,
                      !.index = kFireball, !.name = <<"Fireball">>,
                      !.level = IntVal(3)]

FireballEntity ==
    [etype |-> "spell", source_key |-> kFireball, name |-> <<"Fireball">>,
     level |-> Some(3)]

SnapshotFamily ==
    [docs |-> {RawDoc("spell", kAcidArrow, DocAcidArrow(2)),
               RawDoc("spell", kAcidArrow, DocAcidArrow(3)),
               RawDoc("spell", kFireball, DocFireball)},
     entities |-> {AcidArrowEntity(2), AcidArrowEntity(3), FireballEntity},
     meta |-> {<<None, None>>},
     phases |-> {"spells", "snapshot"}]

\* what the content API lists: one spell, or two
SpellListings ==
    {<<DocAcidArrow(2)>>, <<DocAcidArrow(3)>>, <<DocFireball>>,
     <<DocAcidArrow(2), DocFireball>>}

\* _normalize_spell_fields: int(payload.get("level") or 0)
SpellLevel(payload) ==
    IF payload.level = None THEN 0 ELSE payload.level[1].n

\* the raw store after upsert_raw_entity(entity_type="spell", ...) of one
\* fetched payload, with the <<created, updated>> flags it returns
SpellRawUpsert(rows, source_id, payload) ==
    LET raw_hash == canonical_json_hash(payload)
        found == {r \in rows : RawKey(r) = <<source_id, "spell", payload.index>>}
        existing == CHOOSE r \in found : TRUE
    IN  IF found = {}
        THEN [rows |-> rows \cup
                  {[id |-> NextId(rows), source_id |-> source_id,
                    entity_type |-> "spell", source_key |-> payload.index,
                    name |-> payload.name, srd |-> None, url |-> None,
                    raw_json |-> payload, raw_hash |-> raw_hash,
                    retrieved_at |-> now, created_at |-> now,
                    updated_at |-> now]},
              flags |-> <<TRUE, FALSE>>]
        ELSE IF existing.raw_hash = raw_hash
        THEN [rows |-> (rows \ {existing}) \cup {TouchedRow(existing)},
              flags |-> <<FALSE, FALSE>>]
        ELSE [rows |-> (rows \ {existing}) \cup
                  {UpdatedRow(existing, payload, raw_hash, payload.name,
                              None, None)},
              flags |-> <<FALSE, TRUE>>]

\* the spells table after _upsert_spell, with <<created, updated>>
_upsert_spell(spells, source_id, raw_entity, payload, raw_updated) ==
    LET found == {e \in spells : /\ e.source_id = source_id
                                 /\ e.source_key = payload.index}
        existing == CHOOSE e \in found : TRUE
    IN  IF found = {}
        THEN [rows |-> spells \cup
                  {[etype |-> "spell", id |-> NextId(spells),
                    source_id |-> source_id, source_key |-> payload.index,
                    name |-> payload.name, level |-> Some(SpellLevel(payload)),
                    raw_entity_id |-> Some(raw_entity.id),
                    class_source_key |-> None]},
              flags |-> <<TRUE, FALSE>>]
        ELSE IF ~(raw_updated \/ existing.raw_entity_id # Some(raw_entity.id))
        THEN [rows |-> spells, flags |-> <<FALSE, FALSE>>]
        ELSE [rows |-> (spells \ {existing}) \cup
                  {[existing EXCEPT !.raw_entity_id = Some(raw_entity.id),
                                    !.name = payload.name,
                                    !.level = Some(SpellLevel(payload))]},
              flags |-> <<FALSE, TRUE>>]

Count(flag) == IF flag THEN 1 ELSE 0

\* one iteration of `for entry in entries`
SpellEntry(acc, source_id, payload) ==
    LET raw == SpellRawUpsert(acc.raw, source_id, payload)
        raw_entity == CHOOSE r \in raw.rows :
                          RawKey(r) = <<source_id, "spell", payload.index>>
        spell == _upsert_spell(acc.spells, source_id, raw_entity, payload,
                               raw.flags[2])
    IN  [raw |-> raw.rows, spells |-> spell.rows,
         raw_created |-> acc.raw_created + Count(raw.flags[1]),
         raw_updated |-> acc.raw_updated + Count(raw.flags[2]),
         spell_created |-> acc.spell_created + Count(spell.flags[1]),
         spell_updated |-> acc.spell_updated + Count(spell.flags[2]),
         processed |-> acc.processed + 1]

RECURSIVE SpellEntriesLoop(_, _, _)
SpellEntriesLoop(acc, source_id, entries) ==
    IF entries = <<>> THEN acc
    ELSE SpellEntriesLoop(
             IF Head(entries).index = None THEN acc
             ELSE SpellEntry(acc, source_id, Head(entries)),
             source_id, Tail(entries))

\* every upsert commits as it goes, so a failed import keeps the entries it
\* got through; fail_after = k: the API raises once k entries are processed
import_spells(source_id, entries, fail_after) ==
    LET acc == SpellEntriesLoop(
                   [raw |-> raw_entities, spells |-> Table("spell"),
                    raw_created |-> 0, raw_updated |-> 0, spell_created |-> 0,
                    spell_updated |-> 0, processed |-> 0],
                   source_id, Processed(entries, fail_after))
        failed == fail_after >= 0
    IN  /\ Len(import_runs) < MaxRuns
        /\ now < MaxTime
        /\ fail_after < Len(entries)
        /\ now' = now + 1
        /\ raw_entities' = acc.raw
        /\ entities' = (entities \ Table("spell")) \cup acc.spells
        /\ import_runs' = Append(import_runs,
               ImportRunRow("spells", source_id,
                            IF failed THEN "failed" ELSE "success",
                            acc.raw_created + acc.spell_created,
                            IF failed THEN Some("exception") ELSE None))
        /\ last' = [Returned("import_spells", source_id, ~failed, NoCreated, 0)
                       EXCEPT !.spells_before = Table("spell")]
        /\ UNCHANGED <<choice_groups, choice_options, prerequisites, grants,
                       links, import_snapshots, characters, http>>

\* --------------------------------------------------------------- snapshots
\* A statement's rows as _hash_rows receives them.  The ORDER BY of every
\* statement makes the list a function of the rows selected, so the list is
\* modelled by its rows, each with the number of times it occurs.
Selected(keyed) ==
    {<<p[2], Cardinality({q \in keyed : q[2] = p[2]})>> : p \in keyed}

\* sha256 of the serialized list; the digest is modelled as an injective
\* tag of what is serialized
_hash_rows(rows) == [sha256 |-> rows]

RawKeyOnly(r) == <<r.source_key>>

RawOfType(source_id, entity_type) ==
    {r \in raw_entities : r.source_id = source_id /\ r.entity_type = entity_type}

RawKeyAndHash(r) == <<r.source_key, r.raw_hash>>

\* a digest of the source keys alone
_raw_hashes_of_keys(source_id, entity_type) ==
    _hash_rows(Selected({<<r.id, RawKeyOnly(r)>> :
                            r \in RawOfType(source_id, entity_type)}))

_raw_hashes(source_id, entity_type) ==
    _hash_rows(Selected({<<r.id, RawKeyAndHash(r)>> :
                            r \in RawOfType(source_id, entity_type)}))

OfSource(rows, source_id) == {r \in rows : r.source_id = source_id}

\* choice options joined to the groups of the source
OptionsOfSource(source_id) ==
    {o \in choice_options :
        \E g \in OfSource(choice_groups, source_id) : o.choice_group_id = g.id}

\* the item, condition and monster tables are not modelled
SnapshotCounts(source_id) ==
    [raw_entities |-> Cardinality(OfSource(raw_entities, source_id)),
     spells |-> Cardinality(OfSource(Table("spell"), source_id)),
     classes |-> Cardinality(OfSource(Table("class"), source_id)),
     subclasses |-> Cardinality(OfSource(Table("subclass"), source_id)),
     features |-> Cardinality(OfSource(Table("feature"), source_id)),
     class_features |->
         Cardinality(OfSource(LinkTable("class_feature"), source_id)),
     subclass_features |->
         Cardinality(OfSource(LinkTable("subclass_feature"), source_id)),
     spell_classes |-> Cardinality(OfSource(LinkTable("spell_class"), source_id)),
     choice_groups |-> Cardinality(OfSource(choice_groups, source_id)),
     choice_options |-> Cardinality(OptionsOfSource(source_id)),
     prerequisites |-> Cardinality(prerequisites),
     grant_proficiencies |->
         Cardinality(OfSource(GrantTable("proficiency"), source_id)),
     grant_spells |-> Cardinality(OfSource(GrantTable("spell"), source_id)),
     grant_features |-> Cardinality(OfSource(GrantTable("feature"), source_id))]

EntityColumns(e) == <<e.source_key, e.raw_entity_id>>

FeatureLinkColumns(l) == <<l.a_id, l.b_id, l.level>>

SpellClassColumns(l) == <<l.b_id, l.a_id>>

GroupColumns(g) == <<g.source_key, g.choice_type, g.level>>

GrantColumns(g) == <<g.owner_type, g.owner_id, g.key, g.label>>

ProficiencyColumns(g) == <<g.owner_type, g.owner_id, g.gtype, g.key, g.label>>

\* _table_hash over one normalized table of the source
EntityHash(etype, source_id) ==
    _hash_rows(Selected({<<r.id, EntityColumns(r)>> :
            r \in OfSource(Table(etype), source_id)}))

SnapshotHashes(source_id) ==
    [raw_entities |->
         _hash_rows(Selected({<<r.id, RawKeyAndHash(r)>> :
                 r \in OfSource(raw_entities, source_id)})),
     raw_entities_spell |-> _raw_hashes(source_id, "spell"),
     raw_entities_class |-> _raw_hashes(source_id, "class"),
     raw_entities_subclass |-> _raw_hashes(source_id, "subclass"),
     raw_entities_feature |-> _raw_hashes(source_id, "feature"),
     raw_entities_equipment |-> _raw_hashes(source_id, "equipment"),
     raw_entities_condition |-> _raw_hashes(source_id, "condition"),
     raw_entities_monster |-> _raw_hashes(source_id, "monster"),
     spells |-> EntityHash("spell", source_id),
     classes |-> EntityHash("class", source_id),
     subclasses |-> EntityHash("subclass", source_id),
     features |-> EntityHash("feature", source_id),
     class_features |->
         _hash_rows(Selected({<<r.id, FeatureLinkColumns(r)>> :
                 r \in OfSource(LinkTable("class_feature"), source_id)})),
     subclass_features |->
         _hash_rows(Selected({<<r.id, FeatureLinkColumns(r)>> :
                 r \in OfSource(LinkTable("subclass_feature"), source_id)})),
     spell_classes |->
         _hash_rows(Selected({<<r.id, SpellClassColumns(r)>> :
                 r \in OfSource(LinkTable("spell_class"), source_id)})),
     choice_groups |->
         _hash_rows(Selected({<<r.id, GroupColumns(r)>> :
                 r \in OfSource(choice_groups, source_id)})),
     choice_options |->
         _hash_rows(Selected({<<r.id, ChoiceOptionNaturalKey(r)>> :
                 r \in OptionsOfSource(source_id)})),
     prerequisites |-> _hash_rows(Selected({<<r.id, PrereqNaturalKey(r)>> :
             r \in prerequisites})),
     grant_proficiencies |->
         _hash_rows(Selected({<<r.id, ProficiencyColumns(r)>> :
                 r \in OfSource(GrantTable("proficiency"), source_id)})),
     grant_spells |->
         _hash_rows(Selected({<<r.id, GrantColumns(r)>> :
                 r \in OfSource(GrantTable("spell"), source_id)})),
     grant_features |->
         _hash_rows(Selected({<<r.id, GrantColumns(r)>> :
                 r \in OfSource(GrantTable("feature"), source_id)}))]

\* the run_key of the latest ImportRun of the source, by id; import_spells
\* creates its run without one
LatestRunKey(source_id) ==
    LET ids == {i \in 1..Len(import_runs) : import_runs[i].source_id = source_id}
        run == import_runs[SetMax(ids)]
    IN  IF ids = {} THEN None
        ELSE IF run.phase = "spells" THEN None
        ELSE Some(<<run.phase, run.source_id>>)

create_snapshot(source_id) ==
    /\ Len(import_snapshots) < MaxRuns
    /\ import_snapshots' = Append(import_snapshots,
           [id |-> Len(import_snapshots) + 1, source_id |-> source_id,
            run_key |-> LatestRunKey(source_id),
            counts |-> SnapshotCounts(source_id),
            hashes |-> SnapshotHashes(source_id)])
    /\ last' = Returned("create_snapshot", source_id, TRUE, NoCreated, 0)
    /\ UNCHANGED <<raw_entities, entities, choice_groups, choice_options,
                   prerequisites, grants, links, import_runs, now,
                   characters, http>>

\* the table names of a snapshot as sorted() orders them
TableOrder ==
    <<"choice_groups", "choice_options", "class_features", "classes",
      "features", "grant_features", "grant_proficiencies", "grant_spells",
      "prerequisites", "raw_entities", "raw_entities_class",
      "raw_entities_condition", "raw_entities_equipment",
      "raw_entities_feature", "raw_entities_monster", "raw_entities_spell",
      "raw_entities_subclass", "spell_classes", "spells",
      "subclass_features", "subclasses">>

\* the entries of the report in the order of the list, as
\* <<"Count", table, old, new>> and <<"Hash", table>>; older is None or
\* Some(snapshot), and both snapshots carry the same tables
diff_snapshots(older, newer) ==
    LET counted == SelectSeq(TableOrder, LAMBDA k :
                       /\ k \in DOMAIN newer.counts
                       /\ older[1].counts[k] # newer.counts[k])
        hashed == SelectSeq(TableOrder, LAMBDA k :
                      /\ k \in DOMAIN newer.hashes
                      /\ older[1].hashes[k] # newer.hashes[k])
        changes ==
            [i \in 1..Len(counted) |->
                <<"Count", counted[i], older[1].counts[counted[i]],
                  newer.counts[counted[i]]>>]
            \o [i \in 1..Len(hashed) |-> <<"Hash", hashed[i]>>]
    IN  IF older = None THEN <<<<"No previous snapshot found.">>>>
        ELSE IF Len(changes) = 0 THEN <<<<"No changes detected.">>>>
        ELSE changes

\* -------------------------------------------------- directly inserted rows
\* The verification tests build their stores with session.add: rows are
\* inserted as given, nothing checks that what they reference exists, and a
\* row may carry the id of a second source.
OtherSource == 2

Absent == 999

NoRows == [raw |-> {}, entities |-> {}, groups |-> {}, options |-> {},
           prereqs |-> {}, grants |-> {}, links |-> {}]

StoredRaw(id, entity_type, source_key, payload) ==
    [id |-> id, source_id |-> 1, entity_type |-> entity_type,
     source_key |-> source_key, name |-> payload.name, srd |-> None,
     url |-> None, raw_json |-> payload,
     raw_hash |-> canonical_json_hash(payload),
     retrieved_at |-> 0, created_at |-> 0, updated_at |-> 0]

StoredEntity(e, id, raw_entity_id, class_source_key) ==
    [etype |-> e.etype, id |-> id, source_id |-> 1, source_key |-> e.source_key,
     name |-> e.name, level |-> e.level, raw_entity_id |-> raw_entity_id,
     class_source_key |-> class_source_key]

StoredLink(table, id, source_id, a_id, b_id, level) ==
    [table |-> table, id |-> id, source_id |-> source_id, a_id |-> a_id,
     b_id |-> b_id, level |-> level]

StoredGroup(id, owner_id, choice_type, level, label, source_key) ==
    [id |-> id, source_id |-> 1, owner_type |-> "class", owner_id |-> owner_id,
     choice_type |-> choice_type, choose_n |-> 1, level |-> level,
     label |-> label, notes |-> None, source_key |-> source_key]

StoredOption(id, choice_group_id, option_type, option_source_key, feature_id) ==
    [id |-> id, choice_group_id |-> choice_group_id, option_type |-> option_type,
     option_source_key |-> option_source_key, label |-> option_source_key,
     feature_id |-> feature_id]

StoredPrereq(id, applies_to_type, applies_to_id, key) ==
    [id |-> id, applies_to_type |-> applies_to_type,
     applies_to_id |-> applies_to_id, prereq_type |-> "class", key |-> key,
     operator |-> "==", value |-> None, notes |-> None]

StoredGrant(table, id, owner_id, gtype, key) ==
    [table |-> table, id |-> id, source_id |-> 1, owner_type |-> "class",
     owner_id |-> owner_id, gtype |-> gtype, key |-> key, label |-> key,
     ref_id |-> None]

\* _seed_relationship_data: a class, a spell and a feature with their raw
\* documents
SeedRelationshipData ==
    [NoRows EXCEPT
       !.raw = {StoredRaw(1, "class", kFighter, DocMixed),
                StoredRaw(2, "spell", kMagicMissile, DocMissile),
                StoredRaw(3, "feature", kActionSurge, DocSurge)},
       !.entities = {StoredEntity(ClassEntity, 1, Some(1), None),
                     StoredEntity(MissileEntity, 1, Some(2), None),
                     StoredEntity(SurgeEntity, 1, Some(3), Some(kFighter))}]

\* the links load_relationships derives from them
SeedLinks ==
    [NoRows EXCEPT
       !.links = {StoredLink("spell_class", 1, 1, 1, 1, None),
                  StoredLink("class_feature", 1, 1, 1, 1, Some(2))}]

\* test_verify_relationships_detects_mismatch: bad_link
SeedBadLink ==
    [NoRows EXCEPT
       !.links = {StoredLink("spell_class", 2, OtherSource, 1, 1, None)}]

\* a link of the other source to the class, whose feature does not exist
SeedDanglingBadLink ==
    [NoRows EXCEPT
       !.links = {StoredLink("class_feature", 2, OtherSource, 1, Absent, None)}]

\* the same subclass link twice, to a subclass that does not exist
SeedRepeatedLink ==
    [NoRows EXCEPT
       !.links = {StoredLink("subclass_feature", 1, 1, Absent, 1, None),
                  StoredLink("subclass_feature", 2, 1, Absent, 1, None)}]

\* test_verify_choices_reports_issues: the group of class 999
SeedGhostOwnerGroup ==
    [NoRows EXCEPT !.groups = {StoredGroup(1, Absent, "generic", None, None, None)}]

\* test_verify_choices_reports_issues: the option of group 999
SeedGhostGroupOption ==
    [NoRows EXCEPT
       !.options = {StoredOption(1, Absent, "feature", <<"ghost">>, None)}]

\* test_verify_choices_missing_spell
SeedMissingSpellOption ==
    [NoRows EXCEPT
       !.groups = {StoredGroup(2, 1, "spell", Some(1), <<"Spell", " ", "Choice">>,
                               <<"class", ":", "spell", ":", "1">>)},
       !.options = {StoredOption(2, 2, "spell", kFireball, None)}]

\* test_verify_choices_spell_ok
SeedSpellOption ==
    [NoRows EXCEPT
       !.groups = {StoredGroup(3, 1, "spell", Some(2), <<"Spell", " ", "Choice">>,
                               <<"class", ":", "spell", ":", "2">>)},
       !.options = {StoredOption(3, 3, "spell", kMagicMissile, None)}]

\* a feature option pointing at a feature that does not exist
SeedGhostFeatureOption ==
    [NoRows EXCEPT
       !.groups = {StoredGroup(4, 1, "generic", None, None,
                               <<"class", ":", "generic">>)},
       !.options = {StoredOption(4, 4, "feature", kArchery, Some(Absent))}]

\* test_verify_prereqs: a prerequisite of feature 999, and one of feature 1
SeedPrereqs ==
    [NoRows EXCEPT
       !.prereqs = {StoredPrereq(1, "feature", Absent, kFighter),
                    StoredPrereq(2, "feature", 1, kFighter)}]

\* test_verify_grants: a proficiency of class 999 and a spell grant whose
\* spell does not exist
SeedGrants ==
    [NoRows EXCEPT
       !.grants = {StoredGrant("proficiency", 1, Absent, "armor", <<"light">>),
                   StoredGrant("spell", 1, 1, "spell", kFireball)}]

Seeds ==
    <<SeedRelationshipData, SeedLinks, SeedBadLink, SeedDanglingBadLink,
      SeedRepeatedLink, SeedGhostOwnerGroup, SeedGhostGroupOption,
      SeedMissingSpellOption, SeedSpellOption, SeedGhostFeatureOption,
      SeedPrereqs, SeedGrants>>

\* session.add_all(rows); session.commit()
session_add(i) ==
    /\ last.op \in {"init", "session_add"}
    /\ i > last.added
    /\ raw_entities' = raw_entities \cup Seeds[i].raw
    /\ entities' = entities \cup Seeds[i].entities
    /\ choice_groups' = choice_groups \cup Seeds[i].groups
    /\ choice_options' = choice_options \cup Seeds[i].options
    /\ prerequisites' = prerequisites \cup Seeds[i].prereqs
    /\ grants' = grants \cup Seeds[i].grants
    /\ links' = links \cup Seeds[i].links
    /\ last' = [NoLast EXCEPT !.op = "session_add", !.added = i]
    /\ UNCHANGED <<import_runs, now, import_snapshots, characters, http>>

\* Rows of the second source, inserted into a store of which a snapshot of
\* the first source has just been taken: a spell and a class with their
\* link, a choice group with an option and a spell grant; and a feature
\* with a prerequisite attached to it.
OtherSourceRows ==
    <<[NoRows EXCEPT
         !.raw = {[StoredRaw(11, "spell", kMagicMissile, DocMissile)
                      EXCEPT !.source_id = OtherSource]},
         !.entities = {[StoredEntity(MissileEntity, 11, Some(11), None)
                           EXCEPT !.source_id = OtherSource],
                       [StoredEntity(ClassEntity, 11, None, None)
                           EXCEPT !.source_id = OtherSource]},
         !.links = {StoredLink("spell_class", 11, OtherSource, 11, 11, None)},
         !.groups = {[StoredGroup(11, 11, "generic", None, None,
                                  <<"class", ":", "generic">>)
                         EXCEPT !.source_id = OtherSource]},
         !.options = {StoredOption(11, 11, "string", <<"skill">>, None)},
         !.grants = {[StoredGrant("spell", 11, 11, "spell", kMagicMissile)
                         EXCEPT !.source_id = OtherSource]}],
      [NoRows EXCEPT
         !.entities = {[StoredEntity(SurgeEntity, 12, None, Some(kFighter))
                           EXCEPT !.source_id = OtherSource]},
         !.prereqs = {StoredPrereq(11, "feature", 12, kFighter)}]>>

other_source_add(i) ==
    /\ last.op \in {"create_snapshot", "other_source_add"}
    /\ Len(import_snapshots) < MaxRuns
    /\ i > last.added
    /\ raw_entities' = raw_entities \cup OtherSourceRows[i].raw
    /\ entities' = entities \cup OtherSourceRows[i].entities
    /\ choice_groups' = choice_groups \cup OtherSourceRows[i].groups
    /\ choice_options' = choice_options \cup OtherSourceRows[i].options
    /\ prerequisites' = prerequisites \cup OtherSourceRows[i].prereqs
    /\ grants' = grants \cup OtherSourceRows[i].grants
    /\ links' = links \cup OtherSourceRows[i].links
    /\ last' = [NoLast EXCEPT !.op = "other_source_add", !.added = i]
    /\ UNCHANGED <<import_runs, now, import_snapshots, characters, http>>

\* what a verifier is run after: the rows the tests insert, and for
\* verify_grants also a load_grants pass
Verifiable ==
    [run_all_checks |-> {"session_add"}, verify_choices |-> {"session_add"},
     verify_prereqs |-> {"session_add"},
     verify_grants |-> {"session_add", "load_grants"}]

\* a verifier that deletes the options it finds without a group
VerifiedAfterRepair(op, report) ==
    /\ last.op \in Verifiable[op]
    /\ last' = [NoLast EXCEPT !.op = op, !.added = last.added,
                              !.report = report]
    /\ choice_options' = {o \in choice_options :
                             o.choice_group_id \in Ids(choice_groups)}
    /\ UNCHANGED <<raw_entities, entities, choice_groups, prerequisites,
                   grants, links, import_runs, now, import_snapshots,
                   characters, http>>

\* a verifier only selects: it returns its report and leaves the session
\* with nothing to flush
Verified(op, report) ==
    /\ last.op \in Verifiable[op]
    /\ last' = [NoLast EXCEPT !.op = op, !.added = last.added,
                              !.report = report]
    /\ UNCHANGED <<raw_entities, entities, choice_groups, choice_options,
                   prerequisites, grants, links, import_runs, now,
                   import_snapshots, characters, http>>

RunAllChecksStep == Verified("run_all_checks", run_all_checks)

VerifyChoicesStep == Verified("verify_choices", verify_choices)

VerifyPrereqsStep == Verified("verify_prereqs", verify_prereqs)

VerifyGrantsStep == Verified("verify_grants", verify_grants)

\* ------------------------------------------------------------- api client
MaxRetries == 2

TRANSIENT_AND_NOT_FOUND == {404, 429, 500, 502, 503, 504}
TRANSIENT_STATUS_CODES == {429, 500, 502, 503, 504}

\* what one self._session.get() gives: a response with a status code, or
\* a requests.RequestException
RequestException == [exc |-> TRUE, status_code |-> 0]
FakeResponse(status_code) == [exc |-> FALSE, status_code |-> status_code]
ok(response) == 200 <= response.status_code /\ response.status_code < 400

\* The client: max_retries, and of its latest _request_with_retries the
\* responses its attempts got, the backoff factors slept, and how it ended
\* ("returned" with the response's status, or "ApiHttpError" with the
\* error's status).
NoHttp ==
    [max_retries |-> 0, ready |-> FALSE, attempts |-> <<>>, slept |-> <<>>,
     outcome |-> "", status |-> 0]

SrdApiClient(max_retries) ==
    /\ http' = [NoHttp EXCEPT !.max_retries = max_retries, !.ready = TRUE]
    /\ UNCHANGED <<raw_entities, entities, choice_groups, choice_options,
                   prerequisites, grants, links, import_runs, now,
                   import_snapshots, characters, last>>

ApiHttpError(acc, status) ==
    [acc EXCEPT !.outcome = "ApiHttpError", !.status = status]

\* `for attempt in range(self.max_retries + 1)`; get[attempt + 1] is what
\* the attempt's self._session.get() gives
RECURSIVE RequestLoop(_, _, _)
RequestLoop(acc, get, attempt) ==
    IF attempt >= acc.max_retries + 1 THEN ApiHttpError(acc, 0)
    ELSE
      LET response == get[attempt + 1]
          got == [acc EXCEPT !.attempts = Append(@, response)]
          backoff == [got EXCEPT !.slept = Append(@, 2 ^ attempt)]
      IN  IF response.exc
          THEN IF attempt >= acc.max_retries THEN ApiHttpError(got, 0)
               ELSE RequestLoop(backoff, get, attempt + 1)
          ELSE IF response.status_code \in TRANSIENT_STATUS_CODES
          THEN IF attempt >= acc.max_retries
               THEN ApiHttpError(got, response.status_code)
               ELSE RequestLoop(backoff, get, attempt + 1)
          ELSE IF ~ok(response) THEN ApiHttpError(got, response.status_code)
          ELSE [got EXCEPT !.outcome = "returned",
                           !.status = response.status_code]

_request_with_retries(get) ==
    /\ http.ready
    /\ http.outcome = ""
    /\ http' = RequestLoop(http, get, 0)
    /\ UNCHANGED <<raw_entities, entities, choice_groups, choice_options,
                   prerequisites, grants, links, import_runs, now,
                   import_snapshots, characters, last>>

\* the servers of the tests: each attempt gets an exception, a good
\* response, a missing page or one of the statuses that are retried
Responses ==
    {RequestException}
        \cup {FakeResponse(c) : c \in {200, 404, 429, 500, 502, 503, 504}}

ClientStep ==
    \/ \E max_retries \in -1..MaxRetries : SrdApiClient(max_retries)
    \/ \E get \in [1..(MaxRetries + 1) -> Responses] : _request_with_retries(get)


MaxLevels == 2

\* --------------------------------------------------- character progression
\* The character tables as the session sees them: the committed rows, and
\* the rows the session has added or flushed inside its open transaction.
NoCharacters ==
    [levels |-> {}, choices |-> {}, features |-> {},
     pending |-> [levels |-> {}, choices |-> {}]]

_compare_int(operator, left, right) ==
    CASE operator = ">=" -> left >= right
      [] operator = ">" -> left > right
      [] operator = "<=" -> left <= right
      [] operator = "<" -> left < right
      [] operator = "==" -> left = right
      [] OTHER -> FALSE

\* int(prereq.value): None where int() raises ValueError
IntOf(value) ==
    IF \E n \in 0..99 : ToString(n) = value
    THEN Some(CHOOSE n \in 0..99 : ToString(n) = value)
    ELSE None

\* the exception one prerequisite row raises for the candidate, "" if none
PrereqError(prereq, class_key, subclass_key, feature_ids, level, ability_scores) ==
    LET found == {f \in Table("feature") : f.source_key = prereq.key}
        feature == CHOOSE f \in found : TRUE
        value == IntOf(prereq.value)
        score == ability_scores[1][prereq.key]
    IN  CASE prereq.prereq_type = "class" ->
               IF prereq.key # class_key THEN "ValueError" ELSE ""
          [] prereq.prereq_type = "subclass" ->
               IF subclass_key = None \/ prereq.key # subclass_key[1]
               THEN "ValueError" ELSE ""
          [] prereq.prereq_type = "feature" ->
               IF Cardinality(found) > 1 THEN "MultipleResultsFound"
               ELSE IF found = {} THEN "ValueError"
               ELSE IF feature.id \notin feature_ids THEN "ValueError"
               ELSE ""
          [] prereq.prereq_type = "level" ->
               IF prereq.key \notin {<<"any">>, class_key} THEN "ValueError"
               ELSE IF value = None THEN "ValueError"
               ELSE IF ~_compare_int(prereq.operator, level, value[1])
               THEN "ValueError"
               ELSE ""
          [] prereq.prereq_type = "ability" ->
               IF ability_scores = None THEN "ValueError"
               ELSE IF prereq.key \notin DOMAIN ability_scores[1]
               THEN "ValueError"
               ELSE IF value = None THEN "ValueError"
               ELSE IF ~_compare_int(prereq.operator, score, value[1])
               THEN "ValueError"
               ELSE ""
          [] OTHER -> "ValueError"

\* `for prereq in prereqs`: the first exception and the row that raised it
RECURSIVE PrereqsLoop(_, _, _, _, _, _, _)
PrereqsLoop(prereqs, at, class_key, subclass_key, feature_ids, level, ability_scores) ==
    IF at > Len(prereqs) THEN [error |-> "", at |-> 0]
    ELSE LET error == PrereqError(prereqs[at], class_key, subclass_key,
                                  feature_ids, level, ability_scores)
         IN  IF error # "" THEN [error |-> error, at |-> at]
             ELSE PrereqsLoop(prereqs, at + 1, class_key, subclass_key,
                              feature_ids, level, ability_scores)

\* the class row exists (`.one()`); a subclass that does not gives no key
_validate_prereqs(character_id, class_id, subclass_id, level, prereqs, ability_scores) ==
    LET class_row == CHOOSE c \in Table("class") : c.id = class_id
        subclasses == IF subclass_id = None THEN {}
                      ELSE {e \in Table("subclass") : e.id = subclass_id[1]}
        subclass_key == IF subclasses = {} THEN None
                        ELSE Some((CHOOSE e \in subclasses : TRUE).source_key)
        feature_ids == {entry.feature_id : entry \in
                           {f \in characters.features :
                               f.character_id = character_id}}
    IN  PrereqsLoop(prereqs, 1, class_row.source_key, subclass_key,
                    feature_ids, level, ability_scores)

\* select(Prerequisite).where(applies_to_type == "choice_group",
\* applies_to_id == group.id).all()
GroupPrereqs(group_id) ==
    ById({p \in prerequisites : /\ p.applies_to_type = "choice_group"
                                /\ p.applies_to_id = group_id})

\* the rows of the character tables a query of the session returns
Visible(table) == characters[table] \cup characters.pending[table]

\* `for choice in choices`: the CharacterChoice rows added to the session
\* and the exception that ended the loop, "" if none
RECURSIVE LevelChoicesLoop(_, _, _)
LevelChoicesLoop(acc, args, at) ==
    IF at > Len(args.choices) \/ acc.error # "" THEN acc
    ELSE
      LET choice == args.choices[at]
          group_id == choice.choice_group_id
          groups == {g \in choice_groups : g.id = group_id[1]}
          validated == _validate_prereqs(args.character_id, args.class_id,
                           args.subclass_id, args.level,
                           GroupPrereqs(group_id[1]), args.ability_scores)
          option_id == choice.choice_option_id
          options == {o \in choice_options : o.id = option_id[1]}
          option_label == IF option_id # None
                          THEN Some((CHOOSE o \in options : TRUE).label)
                          ELSE choice.option_label
          row == [id |-> NextId(Visible("choices") \cup acc.rows),
                  character_id |-> args.character_id,
                  choice_group_id |-> group_id[1],
                  choice_option_id |-> option_id,
                  option_label |-> option_label]
      IN  IF group_id = None THEN [acc EXCEPT !.error = "ValueError"]
          ELSE IF groups = {} THEN [acc EXCEPT !.error = "NoResultFound"]
          ELSE IF validated.error # "" THEN [acc EXCEPT !.error = validated.error]
          ELSE IF option_id # None /\ options = {}
          THEN [acc EXCEPT !.error = "ValueError"]
          ELSE LevelChoicesLoop([acc EXCEPT !.rows = @ \cup {row}], args, at + 1)

\* an exception leaves the function with the flushed level row and the
\* added choice rows still in the session's transaction
LevelUpRaised(levels, choices) ==
    [characters EXCEPT !.pending = [levels |-> @.levels \cup levels,
                                    choices |-> @.choices \cup choices]]

\* session.commit(): everything in the session's transaction is committed
Committed(levels, choices) ==
    [characters EXCEPT
       !.levels = @ \cup characters.pending.levels \cup levels,
       !.choices = @ \cup characters.pending.choices \cup choices,
       !.pending = [levels |-> {}, choices |-> {}]]

apply_level_up(args) ==
    LET existing == {l \in Visible("levels") :
                        /\ l.character_id = args.character_id
                        /\ l.level = args.level}
        level_row == [id |-> NextId(Visible("levels")),
                      character_id |-> args.character_id,
                      class_id |-> args.class_id,
                      subclass_id |-> args.subclass_id, level |-> args.level]
        loop == LevelChoicesLoop([rows |-> {}, error |-> ""], args, 1)
    IN  /\ \E c \in Table("class") : c.id = args.class_id
        /\ Cardinality(Visible("levels")) < MaxLevels
        /\ characters' =
             IF existing # {} THEN characters
             ELSE IF loop.error # "" THEN LevelUpRaised({level_row}, loop.rows)
             ELSE Committed({level_row}, loop.rows)
        /\ last' = [NoLast EXCEPT
                      !.op = "apply_level_up", !.added = last.added,
                      !.args = args,
                      !.ok = existing = {} /\ loop.error = "",
                      !.result = [error |-> IF existing # {} THEN "ValueError"
                                            ELSE loop.error,
                                  at |-> 0]]
        /\ UNCHANGED <<raw_entities, entities, choice_groups, choice_options,
                       prerequisites, grants, links, import_runs, now,
                       import_snapshots, http>>

\* a call of _validate_prereqs with the prerequisites of a choice group
validate_prereqs(args) ==
    /\ \E c \in Table("class") : c.id = args.class_id
    /\ last' = [NoLast EXCEPT
                  !.op = "_validate_prereqs", !.added = last.added,
                  !.args = args,
                  !.result = _validate_prereqs(args.character_id, args.class_id,
                                 args.subclass_id, args.level, args.prereqs,
                                 args.ability_scores),
                  !.ok = (_validate_prereqs(args.character_id, args.class_id,
                              args.subclass_id, args.level, args.prereqs,
                              args.ability_scores).error = "")]
    /\ UNCHANGED <<raw_entities, entities, choice_groups, choice_options,
                   prerequisites, grants, links, import_runs, now,
                   import_snapshots, characters, http>>

\* the caller's next session.commit()
session_commit ==
    /\ characters' = Committed({}, {})
    /\ last' = [NoLast EXCEPT !.op = "session_commit", !.added = last.added]
    /\ UNCHANGED <<raw_entities, entities, choice_groups, choice_options,
                   prerequisites, grants, links, import_runs, now,
                   import_snapshots, http>>

\* test_apply_level_up_with_choice_prereq builds its store with
\* session.add: a class, a choice group with an option and a prerequisite,
\* and a character. The store here holds one group per kind of
\* prerequisite, a second class, a subclass, features of two sources and
\* the features the character has acquired.
kWizard == <<"wizard">>

kChampion == <<"champion">>

kDefense == <<"fighting", "-", "style", "-", "defense">>

kStr == <<"str">>

WizardEntity ==
    [etype |-> "class", source_key |-> kWizard, name |-> <<"Wizard">>,
     level |-> None]

ChampionEntity ==
    [etype |-> "subclass", source_key |-> kChampion, name |-> <<"Champion">>,
     level |-> None]

DefenseEntity ==
    [etype |-> "feature", source_key |-> kDefense, name |-> <<"Defense">>,
     level |-> Some(1)]

ProgressionPrereq(id, group_id, prereq_type, key, operator, value) ==
    [StoredPrereq(id, "choice_group", group_id, key) EXCEPT
       !.prereq_type = prereq_type, !.operator = operator, !.value = value]

ProgressionGroups == 1..11

ProgressionData ==
    [NoRows EXCEPT
       !.entities =
           {StoredEntity(ClassEntity, 1, None, None),
            StoredEntity(WizardEntity, 2, None, None),
            StoredEntity(ChampionEntity, 1, None, Some(kFighter)),
            StoredEntity(ArcheryEntity, 1, None, Some(kFighter)),
            [StoredEntity(ArcheryEntity, 2, None, Some(kFighter))
                EXCEPT !.source_id = OtherSource],
            StoredEntity(SurgeEntity, 3, None, Some(kFighter)),
            StoredEntity(DefenseEntity, 4, None, Some(kFighter))},
       !.groups = {StoredGroup(g, 1, "generic", Some(2), <<"Skill">>,
                               <<"class", ":", "fighter">>) :
                      g \in ProgressionGroups},
       !.options = {StoredOption(1, 1, "string", <<"athletics">>, None)},
       !.prereqs =
           {ProgressionPrereq(1, 1, "class", kFighter, "==", "true"),
            ProgressionPrereq(2, 2, "subclass", kChampion, "==", "true"),
            ProgressionPrereq(3, 3, "feature", kActionSurge, "==", "true"),
            ProgressionPrereq(4, 4, "feature", kArchery, "==", "true"),
            ProgressionPrereq(5, 5, "level", <<"any">>, ">=", "2"),
            ProgressionPrereq(6, 6, "level", kFighter, ">", "true"),
            ProgressionPrereq(7, 7, "ability", kStr, ">=", "13"),
            ProgressionPrereq(8, 8, "spell", kMagicMissile, "==", "true"),
            ProgressionPrereq(9, 9, "class", kWizard, "==", "true"),
            ProgressionPrereq(10, 9, "level", kWizard, "<", "3"),
            ProgressionPrereq(11, 10, "feature", kFireball, "==", "true"),
            ProgressionPrereq(12, 11, "feature", kDefense, "==", "true")}]

\* the character has acquired Archery (of the first source) and Action Surge
AcquiredFeatures ==
    {[id |-> 1, character_id |-> 1, feature_id |-> 1],
     [id |-> 2, character_id |-> 1, feature_id |-> 3]}

progression_add ==
    /\ last.op = "init"
    /\ entities' = ProgressionData.entities
    /\ choice_groups' = ProgressionData.groups
    /\ choice_options' = ProgressionData.options
    /\ prerequisites' = ProgressionData.prereqs
    /\ characters' = [NoCharacters EXCEPT !.features = AcquiredFeatures]
    /\ last' = [NoLast EXCEPT !.op = "session_add", !.added = 1]
    /\ UNCHANGED <<raw_entities, grants, links, import_runs, now,
                   import_snapshots, http>>

AbilityScores ==
    {None, Some([k \in {kStr} |-> 15]), Some([k \in {kStr} |-> 10]),
     Some([k \in {<<"dex">>} |-> 15])}

\* the candidates of a level-up: character 1 in either class, with or
\* without the subclass
Candidates ==
    {[NoArgs EXCEPT !.character_id = 1, !.class_id = c, !.subclass_id = s,
                    !.level = l, !.ability_scores = a] :
        c \in {1, 2}, s \in {None, Some(1)}, l \in 1..3, a \in AbilityScores}

Choice(group_id, option_id) ==
    [choice_group_id |-> group_id, choice_option_id |-> option_id,
     option_label |-> None]

\* the choice of the test, one of an unknown option, one whose group needs
\* level 2, and one without a group
ChoiceLists ==
    {<<>>, <<Choice(Some(1), Some(1))>>, <<Choice(Some(5), None)>>,
     <<Choice(Some(1), Some(1)), Choice(Some(1), Some(Absent))>>,
     <<Choice(Some(1), Some(1)), Choice(Some(5), None)>>,
     <<Choice(Some(1), None), Choice(None, Some(1))>>}

\* calls of _validate_prereqs on the store as the test built it
ValidatePrereqsStep ==
    /\ last.op \in {"session_add", "_validate_prereqs"}
    /\ \E a \in Candidates, g \in ProgressionGroups :
          validate_prereqs([a EXCEPT !.prereqs = GroupPrereqs(g)])

ApplyLevelUpStep ==
    \E c \in {1, 2}, l \in 1..MaxLevels, choices \in ChoiceLists :
        apply_level_up([NoArgs EXCEPT !.character_id = 1, !.class_id = c,
                                      !.level = l, !.choices = choices])

\* ------------------------------------------------------------ state machine
Init ==
    /\ raw_entities = {}
    /\ entities = {}
    /\ choice_groups = {}
    /\ choice_options = {}
    /\ prerequisites = {}
    /\ grants = {}
    /\ links = {}
    /\ import_runs = <<>>
    /\ import_snapshots = <<>>
    /\ characters = NoCharacters
    /\ http = NoHttp
    /\ now = 0
    /\ last = NoLast

UpsertStep(family) ==
    \E s \in Sources, d \in family.docs, meta \in family.meta :
        upsert_raw_entity(s, d.entity_type, d.source_key, d.payload, d.name,
                          meta[1], meta[2])

ImportStep(family) == \E s \in Sources, e \in family.entities : import_entity(s, e)

LoadChoicesStep ==
    \E s \in Sources, f \in -1..Cardinality(raw_entities) : load_choices(s, f)

LoadPrereqsStep ==
    \E s \in Sources, f \in -1..Cardinality(raw_entities) : load_prereqs(s, f)

LoadGrantsStep ==
    \E s \in Sources, f \in -1..Cardinality(raw_entities) : load_grants(s, f)

LoadRelationshipsStep ==
    \E s \in Sources, f \in -1..Cardinality(raw_entities) : load_relationships(s, f)

ChoicesScenario ==
    /\ Scoped(ChoiceFamily)
    /\ \/ UpsertStep(ChoiceFamily)
       \/ ImportStep(ChoiceFamily)
       \/ LoadChoicesStep

PrereqsScenario ==
    /\ Scoped(PrereqFamily)
    /\ \/ UpsertStep(PrereqFamily)
       \/ ImportStep(PrereqFamily)
       \/ LoadChoicesStep
       \/ LoadPrereqsStep

GrantsScenario ==
    /\ Scoped(GrantFamily)
    /\ \/ UpsertStep(GrantFamily)
       \/ ImportStep(GrantFamily)
       \/ LoadGrantsStep

LinksScenario ==
    /\ Scoped(LinkFamily)
    /\ \/ UpsertStep(LinkFamily)
       \/ ImportStep(LinkFamily)
       \/ LoadRelationshipsStep

ImportSpellsStep ==
    \E s \in Sources, entries \in SpellListings, f \in -1..1 :
        import_spells(s, entries, f)

CreateSnapshotStep == \E s \in Sources : create_snapshot(s)

SnapshotsScenario ==
    /\ Scoped(SnapshotFamily)
    /\ \/ UpsertStep(SnapshotFamily)
       \/ ImportSpellsStep
       \/ CreateSnapshotStep

\* rebuilds of a store that holds relationship data only
RebuildRelationshipsStep ==
    /\ last.op \in {"session_add", "_rebuild_relationships"}
    /\ choice_groups = {} /\ choice_options = {}
    /\ prerequisites = {} /\ grants = {}
    /\ \E s \in Sources \cup {OtherSource}, truncate \in BOOLEAN, f \in -1..1 :
          _rebuild_relationships(s, truncate, f)

\* rows of the second source between two snapshots of the first
OtherSourceScenario ==
    \/ \E i \in 1..Len(OtherSourceRows) : other_source_add(i)
    \/ last.op = "other_source_add" /\ CreateSnapshotStep

VerifyScenario ==
    \/ \E i \in 1..Len(Seeds) : session_add(i)
    \/ RebuildRelationshipsStep
    \/ RunAllChecksStep
    \/ VerifyChoicesStep
    \/ VerifyPrereqsStep
    \/ VerifyGrantsStep

Next ==
    \/ ChoicesScenario
    \/ PrereqsScenario
    \/ GrantsScenario
    \/ LinksScenario
    \/ SnapshotsScenario
    \/ OtherSourceScenario
    \/ VerifyScenario

Spec == Init /\ [][Next]_vars

\* the character helpers on the store of the progression test
ProgressionNext ==
    \/ progression_add
    \/ ValidatePrereqsStep
    \/ ApplyLevelUpStep
    \/ session_commit

ProgressionSpec == Init /\ [][ProgressionNext]_vars

ClientSpec == Init /\ [][ClientStep]_vars

\* =================================================================== claims
\* the operation just returned is the second successful run of `op` in a
\* row for the same source
RanTwice(op) ==
    /\ last.op = op
    /\ last.ok
    /\ last.prev = <<op, last.source_id, TRUE>>

Hit(outcome, l) == l.op = "upsert_raw_entity" /\ l.outcome = outcome

\* C2: upsert_raw_entity returns created (True, False) exactly when no row
\* existed for the key, unchanged (False, False) exactly when a row existed
\* whose stored hash equals the hash of the payload, updated (False, True)
\* exactly when a row existed with another hash; after an updated outcome
\* the row holds the new payload and the new hash.
C2_UpsertOutcome ==
    [][last'.op = "upsert_raw_entity" =>
         LET before == RawRows(last'.key)
             after == {r \in raw_entities' : RawKey(r) = last'.key}
             h == canonical_json_hash(last'.payload)
         IN  /\ Hit(<<TRUE, FALSE>>, last') <=> before = {}
             /\ Hit(<<FALSE, FALSE>>, last') <=> \E r \in before : r.raw_hash = h
             /\ Hit(<<FALSE, TRUE>>, last') <=> \E r \in before : r.raw_hash # h
             /\ Hit(<<FALSE, TRUE>>, last') =>
                    /\ after # {}
                    /\ \A r \in after : r.raw_json = last'.payload /\ r.raw_hash = h
      ]_vars

C2_Witness ==
    /\ Hit(<<FALSE, TRUE>>, last)
    /\ \E r \in RawRows(last.key) : r.raw_json = last.payload /\ r.created_at < r.updated_at

\* new is old with option entries appended to its one choice node
Grows(old, new) ==
    /\ Len(old.nodes) = 1
    /\ Len(new.nodes) = 1
    /\ [new EXCEPT !.nodes = old.nodes, !.order = old.order] = old
    /\ [new.nodes[1] EXCEPT !.from_list = old.nodes[1].from_list] = old.nodes[1]
    /\ Len(old.nodes[1].from_list) < Len(new.nodes[1].from_list)
    /\ SubSeq(new.nodes[1].from_list, 1, Len(old.nodes[1].from_list))
           = old.nodes[1].from_list

\* the (option_type, option_source_key, label) keys of the option entries of
\* the one choice node of a document
EntryKeys(payload, choice_type) ==
    {<<_normalize_option_type(p[1]), p[2], p[3]>> :
        p \in {_parse_option(o, DefaultOptionType(choice_type)) :
                  o \in SeqToSet(_extract_options(payload.nodes[1]))}}

StoredKeys(group_id) ==
    {<<o.option_type, o.option_source_key, o.label>> :
        o \in {x \in choice_options : x.choice_group_id = group_id}}

\* a load_choices run completes right after a document whose group the
\* previous run created was replaced by one with more option entries
RunsAfterGrowth ==
    /\ Hit(<<FALSE, TRUE>>, last)
    /\ Grows(last.old_payload, last.payload)
    /\ last.prev = <<"load_choices", last.source_id, TRUE>>
    /\ Cardinality(choice_groups) = 1
    /\ last'.op = "load_choices"
    /\ last'.ok

GroupNaturalKey(g) ==
    <<g.source_id, g.owner_type, g.owner_id, g.choice_type, g.level, g.source_key>>

\* the natural keys of a set of groups and of the options under them
ChoiceNaturalKeys(groups, options) ==
    {GroupNaturalKey(g) : g \in groups} \cup
    {<<GroupNaturalKey(p[1]), p[2].option_type, p[2].option_source_key, p[2].label>> :
        p \in {q \in groups \X options : q[2].choice_group_id = q[1].id}}

\* a pass `op` completes right after a raw document was replaced, the
\* previous pass of the same kind having run right before the replacement
ReRuns(op) ==
    /\ Hit(<<FALSE, TRUE>>, last)
    /\ last.prev = <<op, last.source_id, TRUE>>
    /\ last'.op = op
    /\ last'.ok

\* C4 as stated: running load_choices (or load_grants) on D1, replacing the
\* raw documents by D2 and running it again leaves the same derived rows,
\* by natural key, as one run on D2 from an empty derived store.
C4_Converges ==
    [][/\ ReRuns("load_choices") =>
            LET fresh == ChoicesRawLoop(ChoicesStart({}, {}, last'.source_id),
                                        RawOf(last'.source_id, {"class", "feature"}))
            IN  ChoiceNaturalKeys(choice_groups', choice_options')
                    = ChoiceNaturalKeys(fresh.groups, fresh.options)
       /\ ReRuns("load_grants") =>
            LET fresh == GrantsRawLoop(GrantsStart({}, last'.source_id),
                             RawOf(last'.source_id, {"class", "feature", "subclass"}))
            IN  {GrantKey(g) : g \in grants'} = {GrantKey(g) : g \in fresh.rows}
      ]_vars

\* C5: for each of load_prereqs, load_grants and load_relationships, a
\* second run against the unchanged store creates zero rows (every created
\* counter of its summary is 0) and leaves the row count of every table
\* unchanged.
C5_SecondRunCreatesNothing ==
    \A op \in {"load_prereqs", "load_grants", "load_relationships"} :
        RanTwice(op) =>
            /\ last.created = NoCreated
            /\ TableCounts = last.before

\* each of the three passes ran twice over a table it had filled
C5_Witness ==
    /\ RanTwice("load_prereqs")
    /\ Cardinality(prerequisites) >= 3

C5_WitnessGrants ==
    /\ RanTwice("load_grants")
    /\ Cardinality(grants) >= 3

C5_WitnessLinks ==
    /\ RanTwice("load_relationships")
    /\ Cardinality(links) >= 2

\* C6: a raw store written by upsert_raw_entity calls alone (directly, or by
\* the spell import that calls it per entry) holds at most one row per
\* (source_id, entity_type, source_key); after a call for a key its row
\* holds the payload of that call (as a dict) and the call touches no other
\* key; no step that makes no such call changes the store; every row's
\* raw_hash is canonical_json_hash of its stored raw_json.
C6_RawStore ==
    /\ [](last.added = 0 =>
            /\ \A r1, r2 \in raw_entities : RawKey(r1) = RawKey(r2) => r1 = r2
            /\ \A r \in raw_entities :
                  r.raw_hash = canonical_json_hash(r.raw_json))
    /\ [][/\ last'.op = "upsert_raw_entity" =>
               /\ \E r \in raw_entities' :
                     RawKey(r) = last'.key /\ DictEq(r.raw_json, last'.payload)
               /\ \A r \in raw_entities' : RawKey(r) # last'.key => r \in raw_entities
          /\ last'.op \notin {"upsert_raw_entity", "import_spells", "session_add",
                             "other_source_add"} =>
               raw_entities' = raw_entities
         ]_vars

\* an unchanged outcome for a payload whose keys came in another order
C6_Witness ==
    /\ Hit(<<FALSE, FALSE>>, last)
    /\ \E r \in RawRows(last.key) : r.raw_json # last.payload
    /\ Cardinality(raw_entities) = 1

\* C7 as stated: once the entity a spell or feature grant refers to exists,
\* a later load_grants run sets the grant's reference id to the entity's
\* id: after a completed run no grant whose entity exists has a null
\* reference.
C7_ReferenceResolved ==
    (last.op = "load_grants" /\ last.ok) =>
        \A g \in grants :
            g.table \in {"spell", "feature"} =>
                \A e \in ByKey(g.table, g.source_id, g.key) : g.ref_id = Some(e.id)

\* C8: an exception inside load_choices, load_prereqs or load_grants
\* leaves no ChoiceGroup, ChoiceOption, Prerequisite or grant row of that
\* pass in the store, persists the pass's ImportRun row with status failed
\* and the exception text in error, and reaches the caller.
C8_FailedPassRollsBack ==
    [][(last'.op \in {"load_choices", "load_prereqs", "load_grants"} /\ ~last'.ok) =>
         /\ choice_groups' = choice_groups
         /\ choice_options' = choice_options
         /\ prerequisites' = prerequisites
         /\ grants' = grants
         /\ Len(import_runs') = Len(import_runs) + 1
         /\ SubSeq(import_runs', 1, Len(import_runs)) = import_runs
         /\ import_runs'[Len(import_runs')].status = "failed"
         /\ import_runs'[Len(import_runs')].error # None
         /\ import_runs'[Len(import_runs')].source_id = last'.source_id
      ]_vars

\* a pass failed after it had added rows
C8_Witness ==
    /\ last.op = "load_choices"
    /\ ~last.ok
    /\ last.created.groups > 0
    /\ last.created.options > 0
    /\ choice_groups = {}
    /\ import_runs[Len(import_runs)].status = "failed"

C8_WitnessPrereqs ==
    /\ last.op = "load_prereqs"
    /\ ~last.ok
    /\ last.created.prereqs > 0
    /\ prerequisites = {}

C8_WitnessGrants ==
    /\ last.op = "load_grants"
    /\ ~last.ok
    /\ last.created.proficiencies > 0
    /\ grants = {}

\* the level and class rows a feature holds under a key
LevelClassRows(rows, owner, key) ==
    {p \in rows : /\ p.applies_to_type = "feature"
                  /\ p.applies_to_id = owner.id
                  /\ p.key = key
                  /\ p.prereq_type \in {"level", "class"}}

\* P(owner, entry, rows) for every entry that gives both a level and a
\* class in a stored feature document whose owner exists, rows being the
\* level and class rows the owner holds under the entry's class key
ForLevelClassEntries(store, P(_, _, _)) ==
    \A r \in {x \in raw_entities : x.entity_type = "feature"} :
        \A owner \in ByKey("feature", r.source_id, r.source_key) :
            \A i \in 1..Len(r.raw_json.prerequisites) :
                LET entry == r.raw_json.prerequisites[i]
                IN  (_coerce_int(entry.level) # None /\ _extract_key(entry.class) # None)
                    => P(owner, entry,
                         LevelClassRows(store, owner, _extract_key(entry.class)))

\* load_prereqs completes over a store that held no Prerequisite row
FirstPrereqsRun ==
    /\ prerequisites = {}
    /\ last'.op = "load_prereqs"
    /\ last'.ok

TwoRows(owner, entry, rows) ==
    /\ Cardinality(rows) = 2
    /\ \E p \in rows : p.prereq_type = "level"
    /\ \E p \in rows : p.prereq_type = "class"

\* C9 as stated: a prerequisite node that gives both a level and a class
\* yields exactly two Prerequisite rows, a level row keyed by the class
\* source_key and a class row with the same key.
C9_TwoRows ==
    [][FirstPrereqsRun => ForLevelClassEntries(prerequisites', TwoRows)]_vars

LevelRowAndClassRowIfTyped(owner, entry, rows) ==
    /\ \E p \in rows : p.prereq_type = "level" /\ p.value = "2"
    /\ (\E p \in rows : p.prereq_type = "class") <=> LowerAtom(entry.type) = "class"
    /\ Cardinality(rows) = IF LowerAtom(entry.type) = "class" THEN 2 ELSE 1

\* C9, amended: a prerequisite node that gives both a level and a class
\* always yields a level row keyed by the class source_key; it yields a
\* class row with the same key as well (two rows, never merged) only when
\* its type is "class", and the level row alone for any other type.
C9_LevelRowAndTypedClassRow ==
    [][FirstPrereqsRun =>
         ForLevelClassEntries(prerequisites', LevelRowAndClassRowIfTyped)]_vars

\* the entry typed "class" left its two rows
C9_Witness ==
    /\ last.op = "load_prereqs"
    /\ last.ok
    /\ last.created.prereqs = 2
    /\ \E r \in raw_entities : r.raw_json = DocSurgeClass
    /\ \E p, q \in prerequisites :
          /\ p.prereq_type = "level" /\ q.prereq_type = "class"
          /\ p.key = kFighter /\ q.key = kFighter
          /\ p.applies_to_id = q.applies_to_id

\* the entry typed "level" left its level row alone
C9_WitnessLevelOnly ==
    /\ last.op = "load_prereqs"
    /\ last.ok
    /\ \E r \in raw_entities : r.raw_json = DocSurge
    /\ \E p \in prerequisites : p.prereq_type = "level" /\ p.key = kFighter
    /\ \A p \in prerequisites : p.prereq_type # "class"

\* C10 as stated: a choice node whose text or owner matches both the
\* expertise and the invocation token, and no fighting-style token, is
\* classified expertise.
C10_ExpertiseFirst ==
    (last.op = "load_choices" /\ last.ok) =>
        \A r \in raw_entities :
            \A owner \in ByKey(r.entity_type, r.source_id, r.source_key) :
                \A node \in SeqToSet(_collect_choice_nodes(r.raw_json.nodes)) :
                    (/\ \/ HasWord(_choice_text(node), "expertise")
                        \/ HasWord(_owner_text(owner.name, owner.source_key), "expertise")
                     /\ \/ HasWord(_choice_text(node), "invocation")
                        \/ HasWord(_owner_text(owner.name, owner.source_key), "invocation")
                     /\ ~_infer_fighting_style(node, _extract_options(node),
                                               owner.name, owner.source_key)
                     /\ node.choose # None)
                    => \E g \in choice_groups :
                          /\ g.owner_type = r.entity_type
                          /\ g.owner_id = owner.id
                          /\ g.notes = _choice_notes(node)
                          /\ g.choice_type = "expertise"

\* C11 as stated: when upsert_raw_entity finds a row whose hash equals the
\* hash of the payload, retrieved_at is the only column of that row that
\* changes (raw_json, raw_hash, name, srd, url, created_at and updated_at
\* keep their values), and no other row changes.
C11_OnlyRetrievedAtTouched ==
    [][Hit(<<FALSE, FALSE>>, last') =>
         \E old \in raw_entities, new \in raw_entities' :
             /\ RawKey(old) = last'.key
             /\ new = [old EXCEPT !.retrieved_at = new.retrieved_at]
             /\ raw_entities' \ {new} = raw_entities \ {old}
      ]_vars

PrereqSites(source_id) ==
    UNION {{<<r, owner, i>> :
               owner \in ByKey(r.entity_type, r.source_id, r.source_key),
               i \in {j \in 1..Len(_collect_choice_nodes(r.raw_json.nodes)) :
                         _extract_prereq_nodes(
                             _collect_choice_nodes(r.raw_json.nodes)[j]) # <<>>}} :
           r \in {x \in raw_entities : /\ x.source_id = source_id
                                       /\ x.entity_type \in {"class", "feature"}}}

SiteNode(site) == _collect_choice_nodes(site[1].raw_json.nodes)[site[3]]

\* the stable key recomputed for the node of a site, given its type
SiteKey(site, choice_type) ==
    _build_choice_source_key(site[1].entity_type, site[2].source_key, choice_type,
        ChoiceLevel(SiteNode(site), site[1].raw_json, site[2]),
        DefaultLabel(choice_type, _choice_label(SiteNode(site))))

\* the persisted groups of the source that carry the key of a site
SiteGroups(site) ==
    {g \in choice_groups :
        /\ g.source_id = site[1].source_id
        /\ g.source_key =
              SiteKey(site, _infer_choice_type(SiteNode(site),
                                _extract_options(SiteNode(site)),
                                site[2].name, site[2].source_key))}

\* a Prerequisite row that holds a parsed tuple for a group
HoldsTuple(p, g, t) ==
    /\ p.applies_to_type = "choice_group"
    /\ p.applies_to_id = g.id
    /\ <<p.prereq_type, p.key, p.operator, p.value>> = <<t[1], t[2], t[3], t[4]>>

C13_WitnessMissing ==
    /\ last.op = "load_prereqs"
    /\ last.ok
    /\ last.missing = 1
    /\ choice_groups = {}
    /\ \A p \in prerequisites : p.applies_to_type # "choice_group"
    /\ \E r \in raw_entities : r.raw_json = DocMixed
    /\ \E e \in entities : e.etype = "class"

\* the raw documents of the types a pass reads whose owner is missing from
\* the normalized table
SkippedDocuments(source_id, types) ==
    {r \in raw_entities :
        /\ r.source_id = source_id
        /\ r.entity_type \in types
        /\ ByKey(r.entity_type, r.source_id, r.source_key) = {}}

\* the choice nodes, as <<raw row, index>>, whose owner exists and whose
\* choice count coerces to no integer
SkippedChoiceNodes(source_id) ==
    UNION {{<<r, i>> :
               i \in {j \in 1..Len(_collect_choice_nodes(r.raw_json.nodes)) :
                         LET choice == _collect_choice_nodes(r.raw_json.nodes)[j]
                         IN  /\ _coerce_int(choice.choose) = None
                             /\ _coerce_int(choice.choose_n) = None
                             /\ _coerce_int(choice.count) = None}} :
           r \in {x \in raw_entities :
                     /\ x.source_id = source_id
                     /\ x.entity_type \in {"class", "feature"}
                     /\ ByKey(x.entity_type, x.source_id, x.source_key) # {}}}

\* C14 as stated: every raw document or substructure a loader skips
\* without writing a row (owner missing from the normalized table, choice
\* count not coercible to an integer, unresolved reference) increments a
\* counter returned in the pass's summary: the summary's counter is at
\* least the number of documents and choice nodes the pass skipped.
C14_SkipsCounted ==
    /\ (last.op = "load_choices" /\ last.ok) =>
          last.missing >=
              Cardinality(SkippedDocuments(last.source_id, {"class", "feature"}))
                + Cardinality(SkippedChoiceNodes(last.source_id))
    /\ (last.op = "load_prereqs" /\ last.ok) =>
          last.missing >=
              Cardinality(SkippedDocuments(last.source_id, {"class", "feature"}))
    /\ (last.op = "load_grants" /\ last.ok) =>
          last.missing >=
              Cardinality(SkippedDocuments(last.source_id,
                                           {"class", "feature", "subclass"}))

Passes ==
    {"load_choices", "load_prereqs", "load_grants", "load_relationships",
     "import_spells"}

\* C15: every ImportRun row is created with status started at the start
\* of its pass, changes status exactly once, to success or to failed, when
\* the pass ends, and is never deleted; once a pass has returned or raised
\* its ImportRun row is not in status started.
C15_ImportRunLifecycle ==
    /\ [](\A i \in 1..Len(import_runs) :
            /\ Len(import_runs[i].statuses) = 2
            /\ import_runs[i].statuses[1] = "started"
            /\ import_runs[i].statuses[2] \in {"success", "failed"}
            /\ import_runs[i].status = import_runs[i].statuses[2])
    /\ [][/\ Len(import_runs') >= Len(import_runs)
          /\ SubSeq(import_runs', 1, Len(import_runs)) = import_runs
          /\ last'.op \in Passes =>
                /\ Len(import_runs') = Len(import_runs) + 1
                /\ import_runs'[Len(import_runs')].status =
                       IF last'.ok THEN "success" ELSE "failed"
         ]_vars

\* a failed and a successful run are on record
C15_Witness ==
    /\ Len(import_runs) = 2
    /\ import_runs[1].status = "failed"
    /\ import_runs[2].status = "success"
    /\ import_runs[1].phase = "relationships"
    /\ last.op = "load_relationships"

Verifiers == {"run_all_checks", "verify_choices", "verify_prereqs", "verify_grants"}

CrossSourceLinks(table, a_etype, b_etype) ==
    {l \in LinkTable(table) :
        \/ \E a \in Table(a_etype) : l.a_id = a.id /\ l.source_id # a.source_id
        \/ \E b \in Table(b_etype) : l.b_id = b.id /\ l.source_id # b.source_id}

MismatchReported(label, table, a_etype, b_etype) ==
    \A l \in CrossSourceLinks(table, a_etype, b_etype) :
        <<label, l.id>> \in last.report.errors

\* C17: when a class-feature, subclass-feature or spell-class link has a
\* source_id different from that of an entity it references, run_all_checks
\* returns ok = False with a source-mismatch entry for that link among its
\* errors; and ok is True exactly when errors is empty.
C17_CrossSourceLinkReported ==
    last.op = "run_all_checks" =>
        /\ last.report.ok <=> last.report.errors = {}
        /\ MismatchReported("Class feature link source mismatch",
                            "class_feature", "class", "feature")
        /\ MismatchReported("Subclass feature link source mismatch",
                            "subclass_feature", "subclass", "feature")
        /\ MismatchReported("Spell class link source mismatch",
                            "spell_class", "spell", "class")
        /\ (CrossSourceLinks("class_feature", "class", "feature")
            \cup CrossSourceLinks("subclass_feature", "subclass", "feature")
            \cup CrossSourceLinks("spell_class", "spell", "class") # {}
               => ~last.report.ok)

Reported(label, id) == <<label, id>> \in last.report.errors

\* C18: verify_choices lists among its errors every class-owned group whose
\* owner_id is no class, every option whose choice_group_id is no group,
\* and every group that has no option.
C18_ChoiceIssuesAreErrors ==
    last.op = "verify_choices" =>
        /\ \A g \in choice_groups :
              g.owner_type = "class" /\ g.owner_id \notin Ids(Table("class"))
                  => Reported("Choice group missing class owner", g.id)
        /\ \A o \in choice_options :
              o.choice_group_id \notin Ids(choice_groups)
                  => Reported("Choice option missing group", o.id)
        /\ \A g \in choice_groups :
              (\A o \in choice_options : o.choice_group_id # g.id)
                  => Reported("Choice group has no options", g.id)

\* the spell options whose option_source_key is the source_key of no spell
MissingSpellOptions ==
    {o \in choice_options :
        /\ o.option_type = "spell"
        /\ o.option_source_key \notin {e.source_key : e \in Table("spell")}}

\* C19: verify_choices reports a 'Choice option missing spell' error for
\* every spell option whose option_source_key matches no spell, and none
\* for a spell option whose spell exists.
C19_MissingSpellReported ==
    last.op = "verify_choices" =>
        \A o \in choice_options :
            o.option_type = "spell" =>
                (Reported("Choice option missing spell", o.id)
                    <=> o \in MissingSpellOptions)

\* import_spells has just returned, called right after a snapshot was
\* created on a store whose one spell had level 2, and all it changed in
\* the spells table is that spell's level, now 3
LevelReimported ==
    /\ last.op = "import_spells"
    /\ last.ok
    /\ last.prev[1] = "create_snapshot"
    /\ \E old \in last.spells_before :
          /\ last.spells_before = {old}
          /\ old.level = Some(2)
          /\ Table("spell") = {[old EXCEPT !.level = Some(3)]}

\* the report on the two latest snapshots once the step has created one
LatestChanges ==
    SeqToSet(diff_snapshots(Some(import_snapshots'[Len(import_snapshots') - 1]),
                            import_snapshots'[Len(import_snapshots')]))

NoCountEntry(changes) == \A c \in changes : c[1] # "Count"

\* C20 (as claimed): when snapshot A is created for a source holding one
\* spell at level 2 and snapshot B after a re-import changed only that
\* spell's level to 3, diff_snapshots(A, B) contains 'Hash spells changed'
\* and no Count entry.
C20_SpellsHashChanged ==
    [][LevelReimported /\ last'.op = "create_snapshot" =>
         /\ <<"Hash", "spells">> \in LatestChanges
         /\ NoCountEntry(LatestChanges)
      ]_vars

\* C20 (amended): in that case diff_snapshots(A, B) contains
\* 'Hash raw_entities_spell changed' and no Count entry.
C20_RawSpellHashChanged ==
    [][LevelReimported /\ last'.op = "create_snapshot" =>
         /\ <<"Hash", "raw_entities_spell">> \in LatestChanges
         /\ NoCountEntry(LatestChanges)
      ]_vars

\* snapshot B has been created after the re-import that raised the level
\* of the spell snapshot A saw at level 2
C20_Witness ==
    /\ last.op = "create_snapshot"
    /\ last.prev = <<"import_spells", 1, TRUE>>
    /\ Len(import_snapshots) = 2
    /\ import_snapshots[1].counts.spells = 1
    /\ import_snapshots[1].hashes.raw_entities_spell =
           _hash_rows({<<<<kAcidArrow, canonical_json_hash(DocAcidArrow(2))>>, 1>>})
    /\ \E e \in entities : Table("spell") = {e} /\ e.level = Some(3)
    /\ <<"Hash", "raw_entities_spell">> \in
           SeqToSet(diff_snapshots(Some(import_snapshots[1]),
                                   import_snapshots[2]))

\* the position of a table name in the sorted order
Rank(key) == CHOOSE i \in 1..Len(TableOrder) : TableOrder[i] = key

OneEntry(changes, entry) ==
    Cardinality({i \in 1..Len(changes) : changes[i] = entry}) = 1

\* the report on two snapshots is the one C21 describes
DiffAsClaimed(older, newer) ==
    LET changes == diff_snapshots(Some(older), newer)
        counted == {k \in DOMAIN newer.counts :
                       older.counts[k] # newer.counts[k]}
        hashed == {k \in DOMAIN newer.hashes \ counted :
                      older.hashes[k] # newer.hashes[k]}
    IN  IF counted \cup hashed = {}
        THEN changes = <<<<"No changes detected.">>>>
        ELSE /\ \A k \in counted :
                  OneEntry(changes,
                           <<"Count", k, older.counts[k], newer.counts[k]>>)
             /\ \A k \in hashed : OneEntry(changes, <<"Hash", k>>)
             /\ Len(changes) = Cardinality(counted) + Cardinality(hashed)
             /\ \A i \in 1..(Len(changes) - 1) :
                  Rank(changes[i][2]) < Rank(changes[i + 1][2])

\* C21: for two present snapshots diff_snapshots returns exactly one Count
\* entry for each table whose count differs, exactly one Hash entry for
\* each table whose hash differs while its count is equal, no Hash entry
\* for a table whose count differs, the entries in ascending table-name
\* order, and the single entry 'No changes detected.' if nothing differs.
C21_DiffEntries ==
    \A i, j \in 1..Len(import_snapshots) :
        i # j => DiffAsClaimed(import_snapshots[i], import_snapshots[j])

\* operator(left, right) for the comparison operators of a prerequisite
Compares(operator, left, right) ==
    \/ operator = ">=" /\ left >= right
    \/ operator = ">" /\ left > right
    \/ operator = "<=" /\ left <= right
    \/ operator = "<" /\ left < right
    \/ operator = "==" /\ left = right

\* the source_key of the candidate's class, and of the subclass if it has one
CandidateKeys(args, etype, id) ==
    {e.source_key : e \in {x \in Table(etype) : x.id = id}}

\* the prerequisite row holds for the candidate, as C22 reads each type
RowHolds(p, args) ==
    LET class_keys == CandidateKeys(args, "class", args.class_id)
        subclass_keys == IF args.subclass_id = None THEN {}
                         ELSE CandidateKeys(args, "subclass", args.subclass_id[1])
        possessed == {f \in Table("feature") :
                         \E cf \in characters.features :
                             /\ cf.character_id = args.character_id
                             /\ cf.feature_id = f.id}
        numeric == \E n \in 0..99 : ToString(n) = p.value
        value == CHOOSE n \in 0..99 : ToString(n) = p.value
    IN  CASE p.prereq_type = "class" -> p.key \in class_keys
          [] p.prereq_type = "subclass" -> p.key \in subclass_keys
          [] p.prereq_type = "feature" ->
               \E f \in possessed : f.source_key = p.key
          [] p.prereq_type = "level" ->
               /\ p.key \in {<<"any">>} \cup class_keys
               /\ numeric
               /\ Compares(p.operator, args.level, value)
          [] p.prereq_type = "ability" ->
               /\ args.ability_scores # None
               /\ p.key \in DOMAIN args.ability_scores[1]
               /\ numeric
               /\ Compares(p.operator, args.ability_scores[1][p.key], value)
          [] OTHER -> FALSE

\* C22: _validate_prereqs accepts a list of prerequisites exactly when
\* every row holds for the candidate, and raises at the first row that
\* does not hold.
C22_PrereqsValidated ==
    last.op = "_validate_prereqs" =>
        LET rows == last.args.prereqs
            failing == {i \in 1..Len(rows) : ~RowHolds(rows[i], last.args)}
        IN  IF failing = {} THEN last.result.error = ""
            ELSE /\ last.result.error # ""
                 /\ \A i \in failing : last.result.at <= i
                 /\ last.result.at \in failing

\* the links of a source, without their ids
LinkKeysOf(rows, source_id) ==
    {LinkKey(l) : l \in {x \in rows : x.source_id = source_id}}

\* C23: a rebuild with truncate for source S leaves every link of any other
\* source unchanged, and after the reload the links of S are the ones
\* load_relationships produces for the same raw and normalized rows when
\* it starts with no links at all: the earlier links of S are gone.
C23_RebuildScopedToSource ==
    [][(last'.op = "_rebuild_relationships" /\ last'.truncate) =>
         /\ {l \in links' : l.source_id # last'.source_id}
              = {l \in links : l.source_id # last'.source_id}
         /\ last'.ok =>
              LinkKeysOf(links', last'.source_id)
                = LinkKeysOf(LoadedLinks({}, last'.source_id, -1).rows,
                             last'.source_id)
      ]_vars

\* a rebuild that removed a link of its source the documents do not give,
\* derived two, and kept the link of the other source
C23_Witness ==
    /\ last.op = "_rebuild_relationships"
    /\ last.truncate /\ last.ok
    /\ last.source_id = 1
    /\ last.before.links >= 4
    /\ \E l \in links : l.source_id = OtherSource
    /\ Cardinality({l \in links : l.source_id = 1}) = 2

\* the source has a spell and a class but no spell-class link
SpellClassesUncovered(source_id) ==
    /\ OfSource(Table("spell"), source_id) # {}
    /\ OfSource(Table("class"), source_id) # {}
    /\ OfSource(LinkTable("spell_class"), source_id) = {}

\* C24: if a source has at least one spell and at least one class but no
\* spell-class link, run_all_checks reports the spell-class coverage
\* problem, whatever links, spells and classes other sources have.
C24_CoveragePerSource ==
    last.op = "run_all_checks" =>
        \A s \in Sources \cup {OtherSource} :
            SpellClassesUncovered(s) =>
                <<"Spell class coverage missing">>
                    \in last.report.errors \cup last.report.warnings

\* C25: every ChoiceGroup row persisted by load_choices has choose_n >= 1,
\* so a choice node whose count keys give no positive integer produces no
\* ChoiceGroup.
C25_ChooseNPositive ==
    last.added = 0 => \A g \in choice_groups : g.choose_n >= 1

\* the choice-like nodes of a document that have an integer count
CountedNodes(payload) ==
    SelectSeq(_collect_choice_nodes(payload.nodes), LAMBDA node :
        \/ _coerce_int(node.choose) # None
        \/ _coerce_int(node.choose_n) # None
        \/ _coerce_int(node.count) # None)

\* the group holds the choose_n and exactly the options of the node
GroupOfNode(g, node) ==
    /\ g.choose_n \in {n[1] : n \in {_coerce_int(node.choose),
                                      _coerce_int(node.choose_n),
                                      _coerce_int(node.count)} \ {None}}
    /\ {o.label : o \in {x \in choice_options : x.choice_group_id = g.id}}
         = {_parse_option(_extract_options(node)[i],
                          DefaultOptionType(g.choice_type))[3] :
               i \in 1..Len(_extract_options(node))}

\* C27: after load_choices has run on a store without choice groups, the
\* number of ChoiceGroups of each owner equals the number of choice-like
\* nodes with an integer count in its document, also when two nodes have
\* the same inferred type, level and label, and each group holds only the
\* options and the choose_n of its own node.
C27_GroupPerChoiceNode ==
    (last.op = "load_choices" /\ last.ok /\ last.before.choice_groups = 0) =>
        \A r \in raw_entities, owner \in entities :
            (/\ r.source_id = last.source_id /\ owner.source_id = r.source_id
             /\ r.entity_type = owner.etype /\ r.source_key = owner.source_key) =>
              LET groups == {g \in choice_groups :
                                /\ g.owner_type = owner.etype
                                /\ g.owner_id = owner.id}
                  nodes == CountedNodes(r.raw_json)
              IN  /\ Cardinality(groups) = Len(nodes)
                  /\ \A g \in groups :
                        \E i \in 1..Len(nodes) : GroupOfNode(g, nodes[i])

\* the grant has a missing-reference error in the report
ReferenceReported(report, g) ==
    \/ g.table = "spell"
         /\ <<"Grant spell missing spell reference", g.id>> \in report.errors
    \/ g.table = "feature"
         /\ <<"Grant feature missing feature reference", g.id>> \in report.errors

\* a spell or feature with the grant's source key exists in its source
ReferenceExists(g) ==
    \E e \in entities : /\ e.etype = g.table
                         /\ e.source_id = g.source_id
                         /\ e.source_key = g.key

\* C26: verify_grants reports a missing-reference error for a spell or
\* feature grant if and only if no spell or feature with the grant's source
\* key exists in the grant's source, whether or not the grant's reference
\* id is null; so a verify_grants run that follows a load_grants run
\* reports at least as many such errors as that run counted in
\* missing_refs, one for every grant without a reference it created.
C26_MissingReferencesReported ==
    [][last'.op = "verify_grants" =>
         /\ \A g \in GrantTable("spell") \cup GrantTable("feature") :
               ReferenceReported(last'.report, g) <=> ~ReferenceExists(g)
         /\ (last.op = "load_grants" /\ last.ok) =>
               /\ Cardinality({g \in GrantTable("spell") \cup GrantTable("feature") :
                                  ReferenceReported(last'.report, g)})
                    >= last.missing
               /\ \A g \in GrantTable("spell") \cup GrantTable("feature") :
                     (g.ref_id = None /\ ~ReferenceExists(g)) =>
                         ReferenceReported(last'.report, g)
      ]_vars

\* verify_grants after the second of two load_grants runs: a grant whose
\* spell was imported between the runs still has a null reference id and
\* is not reported, and a feature grant of the first run is
C26_Witness ==
    /\ last.op = "verify_grants"
    /\ last.added = 0
    /\ Len(import_runs) = 2
    /\ \E g \in GrantTable("spell") :
          /\ g.ref_id = None /\ ReferenceExists(g)
          /\ ~ReferenceReported(last.report, g)
    /\ \E g \in GrantTable("feature") : ReferenceReported(last.report, g)

\* C28: the counts and hashes of a snapshot of source S depend only on the
\* rows of S: when only rows of another source were inserted since the
\* latest snapshot of S, the diff of that snapshot and a new one is
\* 'No changes detected.'.
C28_SnapshotOfOwnRows ==
    [][(last.op = "other_source_add" /\ last'.op = "create_snapshot") =>
         LET older == import_snapshots[Len(import_snapshots)]
             newer == import_snapshots'[Len(import_snapshots')]
         IN  /\ older.source_id = newer.source_id
             /\ newer.counts = older.counts
             /\ newer.hashes = older.hashes
             /\ diff_snapshots(Some(older), newer) = <<<<"No changes detected.">>>>
      ]_vars

\* the rows of a character table the call has added, committed or pending
RowsOfCall(before, after, table) ==
    (after[table] \cup after.pending[table])
        \ (before[table] \cup before.pending[table])

\* C29: apply_level_up is all-or-nothing. When it raises, no level or
\* choice row of the call is committed and none is left pending in the
\* session; when it returns, the level row and one choice row per supplied
\* choice are committed together.
C29_LevelUpAllOrNothing ==
    [][last'.op = "apply_level_up" =>
         LET levels == RowsOfCall(characters, characters', "levels")
             choices == RowsOfCall(characters, characters', "choices")
         IN  IF last'.ok
             THEN /\ Cardinality(levels) = 1
                  /\ \A l \in levels : /\ l.character_id = last'.args.character_id
                                        /\ l.class_id = last'.args.class_id
                                        /\ l.level = last'.args.level
                  /\ Cardinality(choices) = Len(last'.args.choices)
                  /\ levels \subseteq characters'.levels
                  /\ choices \subseteq characters'.choices
             ELSE /\ levels = {}
                  /\ choices = {}
                  /\ characters'.levels = characters.levels
                  /\ characters'.choices = characters.choices
      ]_vars

\* C30: _request_with_retries makes at most max_retries + 1 attempts; an
\* attempt is followed by another only if it got a request exception or a
\* status 429, 500, 502, 503 or 504; the call returns the first ok response,
\* raises ApiHttpError at once on any other status that is not ok, and
\* raises ApiHttpError when the last allowed attempt fails.
Retried(response) ==
    response.exc \/ response.status_code \in {429, 500, 502, 503, 504}

C30_BoundedRetries ==
    http.outcome # "" =>
      LET n == Len(http.attempts)
      IN  /\ n <= http.max_retries + 1
          /\ \A i \in 1..(n - 1) : Retried(http.attempts[i])
          /\ http.outcome \in {"returned", "ApiHttpError"}
          /\ http.outcome = "returned" <=>
                (n > 0 /\ ~http.attempts[n].exc
                       /\ http.attempts[n].status_code \in 200..399)
          /\ http.outcome = "returned" => http.status = http.attempts[n].status_code
          /\ (n > 0 /\ ~Retried(http.attempts[n]) /\ http.outcome # "returned")
                => http.status = http.attempts[n].status_code
          /\ (http.outcome = "ApiHttpError" /\ n > 0 /\ Retried(http.attempts[n]))
                => n = http.max_retries + 1
          /\ Len(http.slept) = (IF n = 0 THEN 0 ELSE n - 1)

C30_Witness ==
    /\ http.outcome = "returned"
    /\ http.max_retries = 2
    /\ Len(http.attempts) = 3
    /\ http.attempts[1].exc
    /\ http.attempts[2] = FakeResponse(503)

====
